---- MODULE Spec2Model ----
(***************************************************************************)
(* Annotation store, undo/redo history, image switching and edit-mode      *)
(* gestures of the image labeling tool (src/src/annotation_manager.py,     *)
(* src/src/image_labeling_tool.py, src/src/canvas_manager.py).             *)
(*                                                                         *)
(* Python values are modelled as follows.  Lists are sequences, dicts are  *)
(* records or functions.  copy.deepcopy is the identity on TLA+ values;    *)
(* every place where the source stores a list WITHOUT copying it was read  *)
(* for aliasing, and none of them leaves two live references to one list.  *)
(* An optional number (None or a number) is the empty sequence or a        *)
(* one-element sequence; the None label is the string NoneStr.  Floating   *)
(* point coordinates are integers; distances are compared by their squares.*)
(***************************************************************************)
EXTENDS Integers, Sequences, FiniteSets, TLC

VARIABLES
    \* ImageLabelingTool (the controller)
    images, current_image_index, current_image_path,
    labels, label_colors, selected_label, annotation_color,
    current_tool, drag_start_pos,
    \* AnnotationManager
    annotations, current_annotations, selected_annotation_index,
    undo_stack, redo_stack,
    \* CanvasManager
    original_image, zoom_factor, pan_mode, is_panning, is_drawing,
    polygon_points, edit_mode, selected_vertex, selected_edge,
    drag_start_x, drag_start_y, original_coordinates,
    \* the environment: mouse button 1 is held down; events delivered so far
    button1, steps,
    \* history of the run, read by the properties only
    lastOp, lastRet, lastArg, preAnns, preUndoLen, preRedoLen, prev, gesture

ctlVars == <<images, current_image_index, current_image_path, labels,
             label_colors, selected_label, annotation_color, current_tool,
             drag_start_pos>>
amVars == <<annotations, current_annotations, selected_annotation_index,
            undo_stack, redo_stack>>
cmVars == <<original_image, zoom_factor, pan_mode, is_panning, is_drawing,
            polygon_points, edit_mode, selected_vertex, selected_edge,
            drag_start_x, drag_start_y, original_coordinates>>
envVars == <<button1>>
histVars == <<steps, lastOp, lastRet, lastArg, preAnns, preUndoLen, preRedoLen, prev,
              gesture>>
vars == <<ctlVars, amVars, cmVars, envVars, histVars>>

----------------------------------------------------------------------------
\* Python values

None == <<>>
Some(v) == <<v>>
Val(o) == o[1]
NoneStr == "None"

\* Bounds of the model: annotations in the active sequence, events of a run
MaxAnns == 2
MaxSteps == 7
\* ... and coordinates of an annotation handed to add_annotation
MaxCoords == 8
\* ... and events of a run of the specification of validation
MaxAddSteps == 4
\* ... and events of a run of the specification of editing
MaxEditSteps == 12
\* ... and events of a run of the specification of polygons and drafts
MaxPolySteps == 13
\* ... and events of a run of the specification of drawing
MaxDrawSteps == 9
\* ... and events of a run of the specification of edit gestures
MaxShapeSteps == 8
\* ... and events of a run of the specification of labels
MaxLabelSteps == 7
\* The number of events of a behaviour of the specification of COCO files
MaxCocoSteps == 6
\* The number of events of a behaviour of the specification of zooming
MaxZoomSteps == 9
\* The number of vertices of a polygon whose area is asked for, and the number
\* of events of a behaviour of the specification of areas
MaxAreaVertices == 4
MaxAreaSteps == 4
\* The number of events of a behaviour of the specification of drafts
MaxSketchSteps == 9
\* The number of events of a behaviour of the specification of resets
MaxResetSteps == 7
\* The number of events of a behaviour of the specification of image switches
MaxSwitchSteps == 7
\* DEFAULTS['MAX_UNDO_STEPS'] is 50 (src/src/constants.py:28); the model runs
\* the same code with a small capacity so that eviction is reached.
max_undo_steps == 2

----------------------------------------------------------------------------
\* constants.py

ANNOTATION_TYPES == {"Point", "Rectangle", "Circle", "Polygon"}
ANNOTATION_COLOR == "#FF0000"
\* DEFAULTS['ZOOM_FACTOR'] is 1.0: zoom factors are counted in tenths
ZOOM_FACTOR == 10
VERTEX_THRESHOLD == 10
EDGE_THRESHOLD == 5
\* ImageLabelingTool.min_drag_distance, in display pixels
min_drag_distance == 5
\* DEFAULTS['MIN_ZOOM'] = 0.1 and DEFAULTS['MAX_ZOOM'] = 5.0, in tenths
MIN_ZOOM == 1
MAX_ZOOM == 50

----------------------------------------------------------------------------
\* The fields of the three objects as one record, and the step that writes
\* them back.  A method is an operator from this record (its parameter am,
\* cm or app, after the object the method belongs to) to the record after
\* the call, with the value returned where the caller reads it.

State ==
    [images |-> images,
     current_image_index |-> current_image_index,
     current_image_path |-> current_image_path,
     labels |-> labels,
     label_colors |-> label_colors,
     selected_label |-> selected_label,
     annotation_color |-> annotation_color,
     current_tool |-> current_tool,
     drag_start_pos |-> drag_start_pos,
     annotations |-> annotations,
     current_annotations |-> current_annotations,
     selected_annotation_index |-> selected_annotation_index,
     undo_stack |-> undo_stack,
     redo_stack |-> redo_stack,
     original_image |-> original_image,
     zoom_factor |-> zoom_factor,
     pan_mode |-> pan_mode,
     is_panning |-> is_panning,
     is_drawing |-> is_drawing,
     polygon_points |-> polygon_points,
     edit_mode |-> edit_mode,
     selected_vertex |-> selected_vertex,
     selected_edge |-> selected_edge,
     drag_start_x |-> drag_start_x,
     drag_start_y |-> drag_start_y,
     original_coordinates |-> original_coordinates]

SetState(st) ==
    /\ images' = st.images
    /\ current_image_index' = st.current_image_index
    /\ current_image_path' = st.current_image_path
    /\ labels' = st.labels
    /\ label_colors' = st.label_colors
    /\ selected_label' = st.selected_label
    /\ annotation_color' = st.annotation_color
    /\ current_tool' = st.current_tool
    /\ drag_start_pos' = st.drag_start_pos
    /\ annotations' = st.annotations
    /\ current_annotations' = st.current_annotations
    /\ selected_annotation_index' = st.selected_annotation_index
    /\ undo_stack' = st.undo_stack
    /\ redo_stack' = st.redo_stack
    /\ original_image' = st.original_image
    /\ zoom_factor' = st.zoom_factor
    /\ pan_mode' = st.pan_mode
    /\ is_panning' = st.is_panning
    /\ is_drawing' = st.is_drawing
    /\ polygon_points' = st.polygon_points
    /\ edit_mode' = st.edit_mode
    /\ selected_vertex' = st.selected_vertex
    /\ selected_edge' = st.selected_edge
    /\ drag_start_x' = st.drag_start_x
    /\ drag_start_y' = st.drag_start_y
    /\ original_coordinates' = st.original_coordinates

----------------------------------------------------------------------------
\* AnnotationManager

\* A faulty validate_annotation_data that forgets the label: C9 must tell it
\* from the real one.
validate_annotation_data_NoLabel(annotation_type, coordinates, label) ==
    IF annotation_type \notin ANNOTATION_TYPES THEN FALSE
    ELSE IF Len(coordinates) = 0 THEN FALSE
    ELSE IF annotation_type = "Point" /\ Len(coordinates) # 2 THEN FALSE
    ELSE IF annotation_type \in {"Rectangle", "Circle"} /\ Len(coordinates) # 4 THEN FALSE
    ELSE IF annotation_type = "Polygon" /\ Len(coordinates) < 6 THEN FALSE
    ELSE TRUE

validate_annotation_data(annotation_type, coordinates, label) ==
    IF annotation_type \notin ANNOTATION_TYPES THEN FALSE
    ELSE IF Len(coordinates) = 0 THEN FALSE
    ELSE IF annotation_type = "Point" /\ Len(coordinates) # 2 THEN FALSE
    ELSE IF annotation_type \in {"Rectangle", "Circle"} /\ Len(coordinates) # 4 THEN FALSE
    ELSE IF annotation_type = "Polygon" /\ Len(coordinates) < 6 THEN FALSE
    ELSE IF label = NoneStr \/ label = "" THEN FALSE
    ELSE TRUE

\* A faulty save_annotation_state that keeps the redo stack (C4), and one
\* that never evicts (C5).
save_annotation_state_KeepRedo(am) ==
    LET current_state == [annotations |-> am.current_annotations]
        pushed == Append(am.undo_stack, current_state)
    IN [am EXCEPT !.undo_stack = IF Len(pushed) > max_undo_steps
                                 THEN Tail(pushed) ELSE pushed]

save_annotation_state_NoEvict(am) ==
    LET current_state == [annotations |-> am.current_annotations]
    IN [am EXCEPT !.undo_stack = Append(am.undo_stack, current_state),
                  !.redo_stack = <<>>]

\* self.undo_stack.pop(0) when the push made it longer than max_undo_steps
save_annotation_state(am) ==
    LET current_state == [annotations |-> am.current_annotations]
        pushed == Append(am.undo_stack, current_state)
    IN [am EXCEPT !.undo_stack = IF Len(pushed) > max_undo_steps
                                 THEN Tail(pushed) ELSE pushed,
                  !.redo_stack = <<>>]

\* A faulty add_annotation that takes the snapshot after the append (C1)
add_annotation_SnapshotAfter(am, annotation_type, coordinates, label, color) ==
    IF ~validate_annotation_data(annotation_type, coordinates, label)
    THEN [am |-> am, ret |-> FALSE]
    ELSE LET annotation == [type |-> annotation_type,
                            coordinates |-> coordinates,
                            label |-> label,
                            color |-> color]
             appended == [am EXCEPT !.current_annotations = Append(@, annotation)]
         IN [am |-> save_annotation_state(appended), ret |-> TRUE]

add_annotation(am, annotation_type, coordinates, label, color) ==
    IF ~validate_annotation_data(annotation_type, coordinates, label)
    THEN [am |-> am, ret |-> FALSE]
    ELSE LET annotation == [type |-> annotation_type,
                            coordinates |-> coordinates,
                            label |-> label,
                            color |-> color]
             saved == save_annotation_state(am)
         IN [am |-> [saved EXCEPT !.current_annotations =
                                      Append(saved.current_annotations, annotation)],
             ret |-> TRUE]

\* list.pop(index)
RemoveAt(s, i) == [k \in 1..(Len(s) - 1) |-> IF k < i THEN s[k] ELSE s[k + 1]]

\* A faulty delete that reads a negative index as Python's pop does, counting
\* from the end (C11)
delete_annotation_NegativeIndex(am, index) ==
    LET n == Len(am.current_annotations)
        at == IF index < 0 THEN n + index + 1 ELSE index + 1
    IN IF 1 <= at /\ at <= n
       THEN LET saved == save_annotation_state(am)
            IN [am |-> [saved EXCEPT !.current_annotations =
                                         RemoveAt(saved.current_annotations, at)],
                ret |-> TRUE,
                deleted |-> Some(am.current_annotations[at])]
       ELSE [am |-> am, ret |-> FALSE, deleted |-> None]

\* index is the Python (0-based) index; deleted is the value returned (the
\* popped annotation, or None) and ret is TRUE when it is not None.
delete_annotation(am, index) ==
    IF 0 <= index /\ index < Len(am.current_annotations)
    THEN LET saved == save_annotation_state(am)
         IN [am |-> [saved EXCEPT !.current_annotations =
                                      RemoveAt(saved.current_annotations, index + 1)],
             ret |-> TRUE,
             deleted |-> Some(am.current_annotations[index + 1])]
    ELSE [am |-> am, ret |-> FALSE, deleted |-> None]

\* dict.update(annotation_data): the keys of annotation_data replace the
\* annotation's, the others stay.
DictUpdate(d, data) ==
    [k \in DOMAIN d |-> IF k \in DOMAIN data THEN data[k] ELSE d[k]]

update_annotation(am, index, annotation_data) ==
    IF 0 <= index /\ index < Len(am.current_annotations)
    THEN LET saved == save_annotation_state(am)
         IN [am |-> [saved EXCEPT !.current_annotations[index + 1] =
                                      DictUpdate(@, annotation_data)],
             ret |-> TRUE]
    ELSE [am |-> am, ret |-> FALSE]

clear_annotations(am) ==
    [save_annotation_state(am) EXCEPT !.current_annotations = <<>>]

\* A faulty undo that pushes the restored state, not the current one, onto
\* the redo stack (C2)
undo_PushesRestored(am) ==
    IF Len(am.undo_stack) > 0
    THEN LET previous_state == am.undo_stack[Len(am.undo_stack)]
         IN [am |-> [am EXCEPT !.redo_stack = Append(@, previous_state),
                               !.undo_stack = SubSeq(@, 1, Len(@) - 1),
                               !.current_annotations = previous_state.annotations],
             ret |-> TRUE]
    ELSE [am |-> am, ret |-> FALSE]

\* A faulty undo without the guard on the empty stack: it then restores an
\* empty sequence and reports success (C12)
undo_NoGuard(am) ==
    LET current_state == [annotations |-> am.current_annotations]
    IN IF Len(am.undo_stack) > 0
       THEN [am |-> [am EXCEPT !.redo_stack = Append(@, current_state),
                               !.undo_stack = SubSeq(@, 1, Len(@) - 1),
                               !.current_annotations =
                                   am.undo_stack[Len(am.undo_stack)].annotations],
             ret |-> TRUE]
       ELSE [am |-> [am EXCEPT !.redo_stack = Append(@, current_state),
                               !.current_annotations = <<>>],
             ret |-> TRUE]

undo(am) ==
    IF Len(am.undo_stack) > 0
    THEN LET current_state == [annotations |-> am.current_annotations]
             previous_state == am.undo_stack[Len(am.undo_stack)]
         IN [am |-> [am EXCEPT !.redo_stack = Append(@, current_state),
                               !.undo_stack = SubSeq(@, 1, Len(@) - 1),
                               !.current_annotations = previous_state.annotations],
             ret |-> TRUE]
    ELSE [am |-> am, ret |-> FALSE]

redo(am) ==
    IF Len(am.redo_stack) > 0
    THEN LET current_state == [annotations |-> am.current_annotations]
             next_state == am.redo_stack[Len(am.redo_stack)]
         IN [am |-> [am EXCEPT !.undo_stack = Append(@, current_state),
                               !.redo_stack = SubSeq(@, 1, Len(@) - 1),
                               !.current_annotations = next_state.annotations],
             ret |-> TRUE]
    ELSE [am |-> am, ret |-> FALSE]

\* self.annotations is a dict: a function whose domain is the set of keys.
DictSet(d, k, v) == [x \in (DOMAIN d) \cup {k} |-> IF x = k THEN v ELSE d[x]]

save_image_annotations(am, image_path) ==
    IF image_path # NoneStr /\ image_path # ""
    THEN [am EXCEPT !.annotations = DictSet(@, image_path, am.current_annotations)]
    ELSE am

load_image_annotations(am, image_path) ==
    [am EXCEPT !.current_annotations = IF image_path \in DOMAIN am.annotations
                                       THEN am.annotations[image_path]
                                       ELSE <<>>,
               !.undo_stack = <<>>,
               !.redo_stack = <<>>]

----------------------------------------------------------------------------
\* utils.py and the hit tests of CanvasManager.  A distance d is carried as
\* its square, written as a fraction num/den of integers, so that every
\* comparison of the source is decided exactly.

Min(a, b) == IF a < b THEN a ELSE b
Max(a, b) == IF a > b THEN a ELSE b

\* calculate_distance(x1, y1, x2, y2) ** 2
calculate_distance(x1, y1, x2, y2) ==
    [num |-> (x2 - x1) * (x2 - x1) + (y2 - y1) * (y2 - y1), den |-> 1]

\* point_to_line_distance(x, y, x1, y1, x2, y2) ** 2
point_to_line_distance(x, y, x1, y1, x2, y2) ==
    LET A == x - x1
        B == y - y1
        C == x2 - x1
        D == y2 - y1
        dot == A * C + B * D
        len_sq == C * C + D * D
    IN IF len_sq = 0 THEN calculate_distance(x, y, x1, y1)
       ELSE IF dot < 0 THEN calculate_distance(x, y, x1, y1)       \* param < 0
       ELSE IF dot > len_sq THEN calculate_distance(x, y, x2, y2)  \* param > 1
       ELSE [num |-> (A * D - B * C) * (A * D - B * C), den |-> len_sq]

\* d1 < d2 for two distances
DistLess(d1, d2) == d1.num * d2.den < d2.num * d1.den

\* d < pixels / zoom, the zoom counted in units of 1/ZOOM_FACTOR
BelowThreshold(d, pixels, zoom) ==
    d.num * zoom * zoom < pixels * pixels * ZOOM_FACTOR * ZOOM_FACTOR * d.den

\* An IndexError raised by a read past the end of a coordinate list: the
\* handler that made the call stops there (Tk reports the exception and the
\* event loop goes on).
Raised == <<0, 0>>

\* The vertices find_nearest_vertex walks over, in its order.
Vertices(annotation) ==
    LET coords == annotation.coordinates
    IN IF annotation.type \in {"Rectangle", "Circle"}
       THEN << <<coords[1], coords[2]>>, <<coords[3], coords[2]>>,
               <<coords[3], coords[4]>>, <<coords[1], coords[4]>> >>
       ELSE [i \in 1..(Len(coords) \div 2) |-> <<coords[2 * i - 1], coords[2 * i]>>]

\* The loop "if dist < min_dist: min_dist = dist; vertex_index = i": the
\* first vertex among those at the least distance (1-based here).
RECURSIVE NearestFrom(_, _, _, _, _)
NearestFrom(vs, x, y, i, best) ==
    IF i > Len(vs) THEN best
    ELSE LET dist == calculate_distance(vs[i][1], vs[i][2], x, y)
         IN IF best = 0 \/ DistLess(dist, calculate_distance(vs[best][1], vs[best][2], x, y))
            THEN NearestFrom(vs, x, y, i + 1, i)
            ELSE NearestFrom(vs, x, y, i + 1, best)

\* A faulty find_nearest_vertex that returns the first vertex within the
\* threshold and not the nearest one (C23)
find_nearest_vertex_FirstWithin(x, y, annotation, zoom) ==
    LET coords == annotation.coordinates
        n == Len(coords)
    IN IF annotation.type = "Point"
       THEN IF n < 2 THEN Raised
            ELSE IF BelowThreshold(calculate_distance(coords[1], coords[2], x, y),
                                   VERTEX_THRESHOLD, zoom)
            THEN Some(0) ELSE None
       ELSE IF annotation.type \in {"Rectangle", "Circle", "Polygon"}
       THEN IF annotation.type = "Polygon" /\ n % 2 = 1 THEN Raised
            ELSE IF annotation.type # "Polygon" /\ n < 4 THEN Raised
            ELSE LET vs == Vertices(annotation)
                     within == {i \in 1..Len(vs) :
                                   BelowThreshold(
                                       calculate_distance(vs[i][1], vs[i][2], x, y),
                                       VERTEX_THRESHOLD, zoom)}
                 IN IF within # {}
                    THEN Some((CHOOSE i \in within : \A j \in within : i <= j) - 1)
                    ELSE None
       ELSE None

\* Returns None, Some(vertex index, 0-based) or Raised.
find_nearest_vertex(x, y, annotation, zoom) ==
    LET coords == annotation.coordinates
        n == Len(coords)
    IN IF annotation.type = "Point"
       THEN IF n < 2 THEN Raised
            ELSE IF BelowThreshold(calculate_distance(coords[1], coords[2], x, y),
                                   VERTEX_THRESHOLD, zoom)
            THEN Some(0) ELSE None
       ELSE IF annotation.type \in {"Rectangle", "Circle", "Polygon"}
       THEN IF annotation.type = "Polygon" /\ n % 2 = 1 THEN Raised  \* coords[i+1]
            ELSE IF annotation.type # "Polygon" /\ n < 4 THEN Raised
            ELSE LET vs == Vertices(annotation)
                     best == NearestFrom(vs, x, y, 1, 0)
                 IN IF best # 0 /\ BelowThreshold(
                           calculate_distance(vs[best][1], vs[best][2], x, y),
                           VERTEX_THRESHOLD, zoom)
                    THEN Some(best - 1) ELSE None
       ELSE None

\* The edges is_near_edge tests before it returns or raises, in its order:
\* the four sides of a box; the consecutive vertex pairs of a polygon and
\* then its closing edge.
Edges(annotation) ==
    LET coords == annotation.coordinates
        n == Len(coords)
    IN IF annotation.type \in {"Rectangle", "Circle"}
       THEN IF n < 4 THEN <<>>
            ELSE << <<coords[1], coords[2], coords[3], coords[2]>>,
                    <<coords[3], coords[2], coords[3], coords[4]>>,
                    <<coords[3], coords[4], coords[1], coords[4]>>,
                    <<coords[1], coords[4], coords[1], coords[2]>> >>
       ELSE IF annotation.type = "Polygon" /\ n >= 2
       THEN IF n % 2 = 0
            THEN [i \in 1..(n \div 2) |->
                    IF i < n \div 2
                    THEN <<coords[2 * i - 1], coords[2 * i],
                           coords[2 * i + 1], coords[2 * i + 2]>>
                    ELSE <<coords[n - 1], coords[n], coords[1], coords[2]>>]
            ELSE [i \in 1..((n \div 2) - 1) |->
                    <<coords[2 * i - 1], coords[2 * i],
                      coords[2 * i + 1], coords[2 * i + 2]>>]
       ELSE <<>>

\* Walking past the edges above reads past the end of the list.
EdgesRaise(annotation) ==
    LET n == Len(annotation.coordinates)
    IN \/ annotation.type \in {"Rectangle", "Circle"} /\ n < 4
       \/ annotation.type = "Polygon" /\ (n = 0 \/ n % 2 = 1)

\* A faulty is_near_edge that returns the nearest of the edges under the
\* threshold and not the first one (C24)
is_near_edge_Nearest(x, y, annotation, zoom) ==
    LET es == Edges(annotation)
        dist(i) == point_to_line_distance(x, y, es[i][1], es[i][2], es[i][3], es[i][4])
        near == {i \in 1..Len(es) : BelowThreshold(dist(i), EDGE_THRESHOLD, zoom)}
        nearest == {i \in near : \A j \in near : ~DistLess(dist(j), dist(i))}
    IN IF near # {} THEN Some((CHOOSE i \in nearest : \A j \in nearest : i <= j) - 1)
       ELSE IF EdgesRaise(annotation) THEN Raised
       ELSE None

\* Returns None, Some(edge index, 0-based) or Raised: the first edge under
\* the threshold.
is_near_edge(x, y, annotation, zoom) ==
    LET es == Edges(annotation)
        near == {i \in 1..Len(es) :
                    BelowThreshold(point_to_line_distance(x, y, es[i][1], es[i][2],
                                                          es[i][3], es[i][4]),
                                   EDGE_THRESHOLD, zoom)}
    IN IF near # {} THEN Some((CHOOSE i \in near : \A j \in near : i <= j) - 1)
       ELSE IF EdgesRaise(annotation) THEN Raised
       ELSE None

----------------------------------------------------------------------------
\* ImageLabelingTool: the coordinate edits of an edit-mode drag.  Each
\* returns the new coordinate list, or Raised.

\* A faulty update_annotation_vertex that leaves the corners of a Rectangle
\* or Circle in the order the drag gave them (C14)
update_annotation_vertex_NoReorder(annotation, coords, x, y, vertex) ==
    IF annotation.type = "Point"
    THEN IF Len(coords) < 2 THEN Raised
         ELSE [coords EXCEPT ![1] = x, ![2] = y]
    ELSE IF annotation.type \in {"Rectangle", "Circle"}
    THEN IF vertex \in 0..3
         THEN LET x_idx == IF vertex \in {0, 3} THEN 1 ELSE 3
                  y_idx == IF vertex \in {0, 1} THEN 2 ELSE 4
              IN IF Len(coords) < 4 THEN Raised
                 ELSE [coords EXCEPT ![x_idx] = x, ![y_idx] = y]
         ELSE coords
    ELSE IF annotation.type = "Polygon"
    THEN IF vertex * 2 + 2 > Len(coords) THEN Raised
         ELSE [coords EXCEPT ![vertex * 2 + 1] = x, ![vertex * 2 + 2] = y]
    ELSE coords

\* A faulty update_annotation_vertex that edits the coordinates the
\* annotation has now, not the copy of the press-time ones (C22)
update_annotation_vertex_FromCurrent(annotation, coords, x, y, vertex) ==
    LET now == annotation.coordinates
    IN IF annotation.type = "Point"
       THEN IF Len(now) < 2 THEN Raised
            ELSE [now EXCEPT ![1] = x, ![2] = y]
       ELSE IF annotation.type \in {"Rectangle", "Circle"}
       THEN IF vertex \in 0..3
            THEN LET x_idx == IF vertex \in {0, 3} THEN 1 ELSE 3
                     y_idx == IF vertex \in {0, 1} THEN 2 ELSE 4
                 IN IF Len(now) < 4 THEN Raised
                    ELSE LET c == [now EXCEPT ![x_idx] = x, ![y_idx] = y]
                         IN [c EXCEPT ![1] = Min(c[1], c[3]), ![3] = Max(c[1], c[3]),
                                      ![2] = Min(c[2], c[4]), ![4] = Max(c[2], c[4])]
            ELSE now
       ELSE IF annotation.type = "Polygon"
       THEN IF vertex * 2 + 2 > Len(now) THEN Raised
            ELSE [now EXCEPT ![vertex * 2 + 1] = x, ![vertex * 2 + 2] = y]
       ELSE now

update_annotation_vertex(annotation, coords, x, y, vertex) ==
    IF annotation.type = "Point"
    THEN IF Len(coords) < 2 THEN Raised
         ELSE [coords EXCEPT ![1] = x, ![2] = y]
    ELSE IF annotation.type \in {"Rectangle", "Circle"}
    THEN IF vertex \in 0..3
         THEN LET x_idx == IF vertex \in {0, 3} THEN 1 ELSE 3
                  y_idx == IF vertex \in {0, 1} THEN 2 ELSE 4
              IN IF Len(coords) < 4 THEN Raised
                 ELSE LET c == [coords EXCEPT ![x_idx] = x, ![y_idx] = y]
                      IN [c EXCEPT ![1] = Min(c[1], c[3]), ![3] = Max(c[1], c[3]),
                                   ![2] = Min(c[2], c[4]), ![4] = Max(c[2], c[4])]
         ELSE coords
    ELSE IF annotation.type = "Polygon"
    THEN IF vertex * 2 + 2 > Len(coords) THEN Raised
         ELSE [coords EXCEPT ![vertex * 2 + 1] = x, ![vertex * 2 + 2] = y]
    ELSE coords

\* A faulty move_annotation that adds the delta to the coordinates the
\* annotation has now, frame after frame (C21)
move_annotation_Incremental(annotation, coords, dx, dy, original) ==
    LET now == annotation.coordinates
    IN IF annotation.type = "Point"
       THEN IF Len(coords) < 2 THEN Raised
            ELSE [coords EXCEPT ![1] = now[1] + dx, ![2] = now[2] + dy]
       ELSE IF annotation.type \in {"Rectangle", "Circle"}
       THEN IF Len(coords) < 4 THEN Raised
            ELSE [coords EXCEPT ![1] = now[1] + dx, ![2] = now[2] + dy,
                                ![3] = now[3] + dx, ![4] = now[4] + dy]
       ELSE IF annotation.type = "Polygon"
       THEN IF Len(coords) % 2 = 1 THEN Raised
            ELSE [i \in 1..Len(coords) |->
                     IF i % 2 = 1 THEN now[i] + dx ELSE now[i] + dy]
       ELSE coords

move_annotation(annotation, coords, dx, dy, original) ==
    IF annotation.type = "Point"
    THEN IF Len(coords) < 2 THEN Raised
         ELSE [coords EXCEPT ![1] = original[1] + dx, ![2] = original[2] + dy]
    ELSE IF annotation.type \in {"Rectangle", "Circle"}
    THEN IF Len(coords) < 4 THEN Raised
         ELSE [coords EXCEPT ![1] = original[1] + dx, ![2] = original[2] + dy,
                             ![3] = original[3] + dx, ![4] = original[4] + dy]
    ELSE IF annotation.type = "Polygon"
    THEN IF Len(coords) % 2 = 1 THEN Raised
         ELSE [i \in 1..Len(coords) |->
                  IF i % 2 = 1 THEN original[i] + dx ELSE original[i] + dy]
    ELSE coords

----------------------------------------------------------------------------
\* Inputs of the model

\* The image files of the folder the user opens (find_image_files)
ImageFiles == <<"a.png", "b.png">>
\* The label the user adds, with the colour picked for it
LabelNames == {"cat"}
LabelColor == "#FF0000"

\* The texts entered in the name dialog of add_label and edit_label (NoneStr
\* is a cancelled dialog), and the colours picked in the colour dialog
LabelTexts == {"cat", "dog", " cat ", " ", NoneStr}
LabelColors == {"#FF0000", "#00FF00", NoneStr}
\* The points clicked with the Point tool in the specification of labels
LabelPoints == {<<0, 0>>, <<20, 20>>}

\* The shapes added in the specification of COCO files, the random colours
\* import_coco draws for a new label, and the sets of image files Image.open
\* can read during an export
CocoInputs ==
    { [type |-> "Rectangle", coordinates |-> <<0, 0, 20, 20>>, label |-> "cat"],
      [type |-> "Polygon", coordinates |-> <<0, 0, 40, 20, 40, 0>>, label |-> "dog"],
      [type |-> "Point", coordinates |-> <<20, 40>>, label |-> "cat"] }
RandomColors == {"#0000AA", "#00BB00"}
ReadableFiles == {{"a.png", "b.png"}, {"b.png"}}

\* A COCO document written by another tool: the second image is not in the
\* folder; of the annotations of the first image, one has a category id
\* outside the categories, one has no bbox and a segmentation of three
\* points, and one has neither a bbox of four values nor a segmentation of
\* six.
ForeignDocument ==
    [images |-> << [id |-> 1, file_name |-> "a.png"],
                   [id |-> 2, file_name |-> "z.png"] >>,
     categories |-> << [id |-> 1, name |-> "cat"], [id |-> 2, name |-> "bird"] >>,
     annotations |->
         << [id |-> 1, image_id |-> 1, category_id |-> 1,
             bbox |-> <<5, 5, 10, 20>>, segmentation |-> <<>>],
            [id |-> 2, image_id |-> 1, category_id |-> 9,
             bbox |-> <<0, 0, 10, 10>>, segmentation |-> <<>>],
            [id |-> 3, image_id |-> 1, category_id |-> 2,
             bbox |-> <<>>, segmentation |-> << <<0, 0, 10, 0, 10, 10>> >>],
            [id |-> 4, image_id |-> 1, category_id |-> 1,
             bbox |-> <<1, 2, 3>>, segmentation |-> << <<0, 0, 10, 0>> >>],
            [id |-> 5, image_id |-> 2, category_id |-> 1,
             bbox |-> <<0, 0, 10, 10>>, segmentation |-> <<>>] >>]

\* The values of min(scale_x, scale_y) * 0.9 in the specification of zooming
\* (below MIN_ZOOM, 2.0, 4.5 and above MAX_ZOOM), and the wheel events there
\* (the wheel of Windows turned up and down, the two wheel buttons of Linux)
ZoomFits == {0, 20, 45, 60}
WheelEvents ==
    { [delta |-> 120, num |-> 0], [delta |-> -120, num |-> 0],
      [delta |-> 0, num |-> 4], [delta |-> 0, num |-> 5] }

\* Pointer positions in image space
PointerXs == {0, 10, 30}
PointerYs == {0}

\* Positions of the pointer on the canvas in the specification of editing,
\* and the tools chosen there
EditPoints == {<<0, 0>>, <<20, 0>>, <<40, 40>>}
EditTools == {"Point", "Rectangle", "Circle"}

\* Positions of the pointer on the canvas in the specification of polygons
\* and drafts, and the tools chosen there
PolyPoints == {<<0, 0>>, <<20, 0>>, <<20, 20>>}
PolyTools == {"Point", "Rectangle", "Polygon"}

\* Positions of the pointer on the canvas in the specification of drawing
\* (two of them less than min_drag_distance apart, two level with each
\* other), the tools chosen there, and the zooms fit_to_window computes
\* there (0.5 and 2.0)
DrawPoints == {<<0, 0>>, <<2, 2>>, <<20, 0>>, <<20, 20>>}
DrawTools == {"None", "Point", "Rectangle", "Circle"}
ZoomLevels == {5, 20}

\* The shapes added in the specification of edit gestures, the positions of
\* the pointer on the canvas there (at the zoom 1.0, (10, 0) is on the top
\* side of the Rectangle and away from its corners; at the zoom 0.5, (6, 0)
\* is within the vertex threshold of two of its corners and (10, 0) is on the
\* last edge of the Polygon and within the edge threshold of its first one),
\* and the points of the image the hit tests are asked about
ShapeInputs ==
    { [type |-> "Rectangle", coordinates |-> <<0, 0, 20, 20>>, label |-> "cat"],
      [type |-> "Polygon", coordinates |-> <<0, 0, 40, 20, 40, 0>>, label |-> "dog"],
      [type |-> "Point", coordinates |-> <<20, 40>>, label |-> "cat"] }
ShapePoints == {<<0, 0>>, <<6, 0>>, <<10, 0>>, <<40, 40>>}
QueryPoints == {<<0, 0>>, <<10, 0>>, <<12, 0>>, <<19, 3>>, <<10, 10>>, <<30, 40>>}
\* Offsets of the pointer from a vertex on the display, in display pixels
\* (even, so that every zoom of the model leaves them whole in the image):
\* on it, at 8 pixels from it, at 10 pixels exactly, and beyond
DisplayOffsets == {<<0, 0>>, <<0, 8>>, <<6, 8>>, <<0, 12>>}

\* Arguments of add_annotation in the main specification
AddInputs ==
    { [type |-> "Rectangle", coordinates |-> <<0, 0, 20, 20>>, label |-> "cat"],
      [type |-> "Rectangle", coordinates |-> <<0, 0, 20>>, label |-> "cat"] }

\* Arguments of add_annotation in the specification of validation: every
\* kind and one that is none of them, every coordinate count up to MaxCoords,
\* a label, the empty label and no label
AddKinds == ANNOTATION_TYPES \cup {"Line"}
Coords(n) == [i \in 1..n |-> 10 * i]
WideAddInputs ==
    { [type |-> kind, coordinates |-> Coords(n), label |-> label] :
        kind \in AddKinds, n \in 0..MaxCoords, label \in {"cat", "", NoneStr} }

\* Arguments of update_annotation
UpdateInputs == { [label |-> "dog"] }

----------------------------------------------------------------------------
\* History variables.  steps counts the events of the run, which the model
\* stops at MaxSteps.  lastOp names the last event, lastRet is what it
\* returned, lastArg the arguments of an add; preAnns, preUndoLen and
\* preRedoLen are the active sequence and the heights of the two stacks just
\* before it.  prev keeps the same about the event before the last one, when
\* that one changed the history.  gesture follows an edit-mode gesture from
\* the press that engages a vertex or an edge: the height of the undo stack,
\* the annotation and its coordinates at the press.

Mutating == {"add", "delete", "update", "clear"}

Kind(op, ret) ==
    IF op \in Mutating /\ ret THEN "mutation"
    ELSE IF op = "release" /\ ret THEN "release"
    ELSE IF op = "undo" /\ ret THEN "undo"
    ELSE "other"

NoArg == [type |-> "", coordinates |-> <<>>, label |-> ""]
NoPrev == [kind |-> "other", anns |-> <<>>, redoLen |-> 0]
IdleGesture == [phase |-> "idle", undoLen |-> 0, index |-> 0, coords |-> <<>>]

HistArg(op, ret, arg) ==
    /\ steps' = steps + 1
    /\ lastOp' = op
    /\ lastRet' = ret
    /\ lastArg' = arg
    /\ preAnns' = current_annotations
    /\ preUndoLen' = Len(undo_stack)
    /\ preRedoLen' = Len(redo_stack)
    /\ prev' = IF Kind(lastOp, lastRet) = "other" THEN NoPrev
               ELSE [kind |-> Kind(lastOp, lastRet), anns |-> preAnns,
                     redoLen |-> preRedoLen]

Hist(op, ret) == HistArg(op, ret, NoArg)

----------------------------------------------------------------------------
\* The state after construction (ImageLabelingTool.__init__,
\* AnnotationManager.__init__, CanvasManager.__init__)

Init ==
    /\ images = <<>>
    /\ current_image_index = -1
    /\ current_image_path = NoneStr
    /\ labels = <<>>
    /\ label_colors = <<>>
    /\ selected_label = NoneStr
    /\ annotation_color = ANNOTATION_COLOR
    /\ current_tool = "None"
    /\ drag_start_pos = None
    /\ annotations = <<>>
    /\ current_annotations = <<>>
    /\ selected_annotation_index = None
    /\ undo_stack = <<>>
    /\ redo_stack = <<>>
    /\ original_image = NoneStr
    /\ zoom_factor = ZOOM_FACTOR
    /\ pan_mode = FALSE
    /\ is_panning = FALSE
    /\ is_drawing = FALSE
    /\ polygon_points = <<>>
    /\ edit_mode = FALSE
    /\ selected_vertex = None
    /\ selected_edge = None
    /\ drag_start_x = None
    /\ drag_start_y = None
    /\ original_coordinates = None
    /\ button1 = FALSE
    /\ steps = 0
    /\ lastOp = "init"
    /\ lastRet = FALSE
    /\ lastArg = NoArg
    /\ preAnns = <<>>
    /\ preUndoLen = 0
    /\ preRedoLen = 0
    /\ prev = NoPrev
    /\ gesture = IdleGesture

----------------------------------------------------------------------------
\* The operations of the annotation store, called on the active sequence

AddAnnotation(input) ==
    /\ Len(current_annotations) < MaxAnns
    /\ LET r == add_annotation(State, input.type, input.coordinates, input.label,
                               annotation_color)
       IN SetState(r.am) /\ HistArg("add", r.ret, input)
    /\ gesture' = IdleGesture
    /\ UNCHANGED envVars

DeleteAnnotation(index) ==
    /\ LET r == delete_annotation(State, index)
       IN SetState(r.am) /\ Hist("delete", r.ret)
    /\ gesture' = IdleGesture
    /\ UNCHANGED envVars

UpdateAnnotation(index, annotation_data) ==
    /\ LET r == update_annotation(State, index, annotation_data)
       IN SetState(r.am) /\ Hist("update", r.ret)
    /\ gesture' = IdleGesture
    /\ UNCHANGED envVars

ClearAnnotations ==
    /\ SetState(clear_annotations(State))
    /\ Hist("clear", TRUE)
    /\ gesture' = IdleGesture
    /\ UNCHANGED envVars

\* ImageLabelingTool.undo / redo: the store's undo / redo, then a refresh of
\* the display
Undo ==
    /\ LET r == undo(State)
       IN SetState(r.am) /\ Hist("undo", r.ret)
    /\ gesture' = IF gesture.phase = "released"
                  THEN [gesture EXCEPT !.phase = "undone"] ELSE IdleGesture
    /\ UNCHANGED envVars

Redo ==
    /\ LET r == redo(State)
       IN SetState(r.am) /\ Hist("redo", r.ret)
    /\ gesture' = IdleGesture
    /\ UNCHANGED envVars

----------------------------------------------------------------------------
\* ImageLabelingTool: images

\* CanvasManager.load_image; `ok` is whether Image.open succeeds, which the
\* image file decides.
load_image(cm, image_path, ok) ==
    IF ok THEN [cm EXCEPT !.original_image = image_path,
                          !.zoom_factor = ZOOM_FACTOR]    \* reset_zoom
    ELSE cm

\* on_image_select with the listbox selection `selection` (0-based)
on_image_select(app, selection, ok) ==
    LET saved == IF app.current_image_index >= 0
                 THEN save_image_annotations(app, app.current_image_path)
                 ELSE app
        moved == [saved EXCEPT !.current_image_index = selection,
                               !.current_image_path = saved.images[selection + 1]]
        shown == load_image(moved, moved.current_image_path, ok)
    IN IF ok THEN load_image_annotations(shown, shown.current_image_path)
       ELSE shown

OnImageSelect(selection, ok) ==
    /\ selection \in 0..(Len(images) - 1)
    /\ SetState(on_image_select(State, selection, ok))
    /\ Hist("select", ok)
    /\ gesture' = IdleGesture
    /\ UNCHANGED envVars

\* FileIOManager.save_annotations, as far as the store is concerned: the
\* active sequence is recorded under the active image's path before the files
\* are written
save_annotations(app) ==
    IF app.images = <<>> THEN app
    ELSE IF app.current_image_index >= 0
         THEN save_image_annotations(app, app.current_image_path)
         ELSE app

SaveAnnotations ==
    /\ SetState(save_annotations(State))
    /\ Hist("save", images # <<>>)
    /\ gesture' = IdleGesture
    /\ UNCHANGED envVars

\* The point the user marks on the image at an index: each image is marked at
\* a place of its own, so that a stored annotation tells the image it was
\* drawn on.
PointOn(index) ==
    [type |-> "Point", coordinates |-> <<20 * index, 20 * index>>, label |-> "cat"]

\* reset_workspace, once the user has confirmed (the history stacks, the
\* edit state and the loaded image are not among the fields it writes)
reset_workspace(app) ==
    [app EXCEPT !.images = <<>>,
                !.annotations = <<>>,
                !.current_annotations = <<>>,
                !.current_image_index = -1,
                !.current_image_path = NoneStr,
                !.labels = <<>>,
                !.label_colors = <<>>,
                !.selected_label = NoneStr]

\* FileIOManager.load_folder: a folder is chosen, the workspace is reset (a
\* refused confirmation leaves everything as it is), the folder's images are
\* listed and the first one is selected.
load_folder(app, files, ok) ==
    IF files = <<>> THEN reset_workspace(app)          \* no image in the folder
    ELSE on_image_select([reset_workspace(app) EXCEPT !.images = files], 0, ok)

LoadFolder(files, ok) ==
    /\ SetState(load_folder(State, files, ok))
    /\ Hist("load_folder", ok)
    /\ gesture' = IdleGesture
    /\ UNCHANGED envVars

----------------------------------------------------------------------------
\* ImageLabelingTool: labels

\* str.strip of the texts the model enters in a dialog
Strip(text) ==
    IF text = " cat " THEN "cat"
    ELSE IF text = " " THEN ""
    ELSE text

\* `label in self.labels`
InList(label, list) == \E i \in 1..Len(list) : list[i] = label

\* A faulty add_label that tests the text for a duplicate as it was entered,
\* before it strips it (C26)
add_label_NoStrip(app, label, color) ==
    IF label \in {NoneStr, ""} \/ Strip(label) = "" \/ InList(label, app.labels)
       \/ color = NoneStr
    THEN app
    ELSE [app EXCEPT !.labels = Append(@, Strip(label)),
                     !.label_colors = DictSet(@, Strip(label), color),
                     !.selected_label = Strip(label),
                     !.annotation_color = color]

\* add_label with the text entered in the name dialog and the colour picked
\* in the colour dialog (NoneStr where the dialog was cancelled)
add_label(app, label, color) ==
    LET name == Strip(label)
    IN IF label \in {NoneStr, ""} \/ name = "" \/ InList(name, app.labels)
          \/ color = NoneStr
       THEN app
       ELSE [app EXCEPT !.labels = Append(@, name),
                        !.label_colors = DictSet(@, name, color),
                        !.selected_label = name,
                        !.annotation_color = color]

AddLabel(label, color) ==
    /\ SetState(add_label(State, label, color))
    /\ HistArg("add_label", add_label(State, label, color).labels # labels,
               [NoArg EXCEPT !.label = label])
    /\ gesture' = IdleGesture
    /\ UNCHANGED envVars

\* The loop of edit_label over the active sequence
Relabel(anns, old_label, new_label, new_color) ==
    [i \in 1..Len(anns) |-> IF anns[i].label = old_label
                            THEN [anns[i] EXCEPT !.label = new_label,
                                                 !.color = new_color]
                            ELSE anns[i]]

\* edit_label with the listbox selection `index`, the text entered in the
\* name dialog and the colour picked in the colour dialog.  `del
\* self.label_colors[old_label]` raises KeyError when the label has no
\* colour: the handler stops there, after it has written the name.
edit_label(app, index, new_label, new_color) ==
    LET old_label == app.labels[index + 1]
        name == Strip(new_label)
    IN IF new_label \in {NoneStr, ""} \/ name = "" THEN app
       ELSE IF name # old_label /\ InList(name, app.labels) THEN app
       ELSE IF new_color = NoneStr THEN app
       ELSE IF old_label \notin DOMAIN app.label_colors
       THEN [app EXCEPT !.labels[index + 1] = name]
       ELSE [app EXCEPT
                !.labels[index + 1] = name,
                !.label_colors =
                    DictSet([l \in (DOMAIN @) \ {old_label} |-> @[l]], name, new_color),
                !.current_annotations = Relabel(@, old_label, name, new_color),
                !.selected_label = IF @ = old_label THEN name ELSE @,
                !.annotation_color =
                    IF app.selected_label = old_label THEN new_color ELSE @]

EditLabel(index, new_label, new_color) ==
    /\ index \in 0..(Len(labels) - 1)
    /\ SetState(edit_label(State, index, new_label, new_color))
    /\ HistArg("edit_label", edit_label(State, index, new_label, new_color) # State,
               [NoArg EXCEPT !.label = new_label])
    /\ gesture' = IdleGesture
    /\ UNCHANGED envVars

\* The loop of delete_label over the active sequence
ClearLabel(anns, label_to_delete) ==
    [i \in 1..Len(anns) |-> IF anns[i].label = label_to_delete
                            THEN [anns[i] EXCEPT !.label = NoneStr]
                            ELSE anns[i]]

\* A faulty delete_label that also clears the label in the sequences recorded
\* for the other images (C8)
delete_label_AllImages(app, index) ==
    LET label_to_delete == app.labels[index + 1]
    IN [app EXCEPT !.labels = RemoveAt(@, index + 1),
                   !.label_colors = [l \in (DOMAIN @) \ {label_to_delete} |-> @[l]],
                   !.selected_label = IF @ = label_to_delete THEN NoneStr ELSE @,
                   !.current_annotations = ClearLabel(@, label_to_delete),
                   !.annotations = [p \in DOMAIN @ |-> ClearLabel(@[p], label_to_delete)]]

\* A faulty delete_label that deletes the annotations that carry the label
\* (C25)
delete_label_DropsAnnotations(app, index) ==
    LET label_to_delete == app.labels[index + 1]
        RECURSIVE Without(_)
        Without(anns) ==
            IF anns = <<>> THEN <<>>
            ELSE IF Head(anns).label = label_to_delete THEN Without(Tail(anns))
            ELSE <<Head(anns)>> \o Without(Tail(anns))
    IN [app EXCEPT !.labels = RemoveAt(@, index + 1),
                   !.label_colors = [l \in (DOMAIN @) \ {label_to_delete} |-> @[l]],
                   !.selected_label = IF @ = label_to_delete THEN NoneStr ELSE @,
                   !.current_annotations = Without(@)]

\* delete_label with the listbox selection `index`, both dialogs confirmed
delete_label(app, index) ==
    LET label_to_delete == app.labels[index + 1]
    IN [app EXCEPT !.labels = RemoveAt(@, index + 1),
                   !.label_colors = [l \in (DOMAIN @) \ {label_to_delete} |-> @[l]],
                   !.selected_label = IF @ = label_to_delete THEN NoneStr ELSE @,
                   !.current_annotations = ClearLabel(@, label_to_delete)]

DeleteLabel(index) ==
    /\ index \in 0..(Len(labels) - 1)
    /\ SetState(delete_label(State, index))
    /\ Hist("delete_label", TRUE)
    /\ gesture' = IdleGesture
    /\ UNCHANGED envVars

----------------------------------------------------------------------------
\* ImageLabelingTool: tools and edit mode

\* on_tool_change: the tool is the one the combobox shows (tool_var, which
\* the model does not keep apart from current_tool); any draft is dropped.
on_tool_change(app, tool) ==
    [app EXCEPT !.current_tool = tool,
                !.is_drawing = FALSE,
                !.polygon_points = <<>>,
                !.drag_start_pos = None]

\* edit_annotation with the listbox selection `selection` (0-based, or None)
edit_annotation(app, selection) ==
    IF selection # None /\ Len(app.current_annotations) > 0
    THEN [app EXCEPT !.selected_annotation_index = selection,
                     !.edit_mode = TRUE,
                     !.current_tool = "None",
                     !.pan_mode = FALSE]
    ELSE app

exit_edit_mode(app) ==
    LET left == [app EXCEPT !.edit_mode = FALSE,
                            !.selected_annotation_index = None,
                            !.selected_vertex = None,
                            !.selected_edge = None,
                            !.drag_start_x = None,
                            !.drag_start_y = None,
                            !.original_coordinates = None]
    IN IF left.current_tool # "None" THEN on_tool_change(left, left.current_tool)
       ELSE left

\* get_annotation(index) is not None
HasAnnotation(am, index) ==
    index # None /\ 0 <= Val(index) /\ Val(index) < Len(am.current_annotations)

get_annotation(am, index) == am.current_annotations[Val(index) + 1]

\* A faulty handle_edit_mode_click that tests the edges before the vertices
\* (C20)
handle_edit_mode_click_EdgeFirst(app, x, y) ==
    IF ~HasAnnotation(app, app.selected_annotation_index)
    THEN [app |-> app, ret |-> "none"]
    ELSE LET annotation == get_annotation(app, app.selected_annotation_index)
             vertex == find_nearest_vertex(x, y, annotation, app.zoom_factor)
             edge == is_near_edge(x, y, annotation, app.zoom_factor)
         IN IF edge = Raised THEN [app |-> app, ret |-> "none"]
            ELSE IF edge # None
            THEN [app |-> [app EXCEPT !.selected_edge = edge,
                                      !.drag_start_x = Some(x),
                                      !.drag_start_y = Some(y),
                                      !.original_coordinates = annotation.coordinates],
                  ret |-> "edge"]
            ELSE IF vertex = Raised THEN [app |-> app, ret |-> "none"]
            ELSE IF vertex # None
            THEN [app |-> [app EXCEPT !.selected_vertex = vertex,
                                      !.drag_start_x = Some(x),
                                      !.drag_start_y = Some(y),
                                      !.original_coordinates = annotation.coordinates],
                  ret |-> "vertex"]
            ELSE [app |-> exit_edit_mode(app), ret |-> "exit"]

\* ret: "vertex", "edge", "exit", or "none" when the handler returned (or
\* stopped on an exception) before it wrote anything.
handle_edit_mode_click(app, x, y) ==
    IF ~HasAnnotation(app, app.selected_annotation_index)
    THEN [app |-> app, ret |-> "none"]
    ELSE LET annotation == get_annotation(app, app.selected_annotation_index)
             vertex == find_nearest_vertex(x, y, annotation, app.zoom_factor)
             edge == is_near_edge(x, y, annotation, app.zoom_factor)
         IN IF vertex = Raised THEN [app |-> app, ret |-> "none"]
            ELSE IF vertex # None
            THEN [app |-> [app EXCEPT !.selected_vertex = vertex,
                                      !.drag_start_x = Some(x),
                                      !.drag_start_y = Some(y),
                                      !.original_coordinates = annotation.coordinates],
                  ret |-> "vertex"]
            ELSE IF edge = Raised THEN [app |-> app, ret |-> "none"]
            ELSE IF edge # None
            THEN [app |-> [app EXCEPT !.selected_edge = edge,
                                      !.drag_start_x = Some(x),
                                      !.drag_start_y = Some(y),
                                      !.original_coordinates = annotation.coordinates],
                  ret |-> "edge"]
            ELSE [app |-> exit_edit_mode(app), ret |-> "exit"]

\* ret: TRUE when update_annotation was reached
handle_edit_mode_drag(app, x, y) ==
    IF app.selected_vertex = None /\ app.selected_edge = None
    THEN [app |-> app, ret |-> FALSE]
    ELSE IF ~HasAnnotation(app, app.selected_annotation_index)
    THEN [app |-> app, ret |-> FALSE]
    ELSE LET annotation == get_annotation(app, app.selected_annotation_index)
             dx == x - Val(app.drag_start_x)
             dy == y - Val(app.drag_start_y)
             new_coords ==
                 IF app.selected_vertex # None
                 THEN update_annotation_vertex(annotation, app.original_coordinates,
                                               x, y, Val(app.selected_vertex))
                 ELSE move_annotation(annotation, app.original_coordinates, dx, dy,
                                      app.original_coordinates)
         IN IF new_coords = Raised THEN [app |-> app, ret |-> FALSE]
            ELSE LET r == update_annotation(app, Val(app.selected_annotation_index),
                                            [coordinates |-> new_coords])
                 IN [app |-> r.am, ret |-> r.ret]

\* A faulty handle_edit_mode_release that pushes its snapshot whether or not
\* a vertex or an edge is engaged (C33)
handle_edit_mode_release_AlwaysSaves(app) ==
    [app |-> [save_annotation_state(app) EXCEPT !.selected_vertex = None,
                                                !.selected_edge = None,
                                                !.drag_start_x = None,
                                                !.drag_start_y = None,
                                                !.original_coordinates = None],
     ret |-> app.selected_vertex # None \/ app.selected_edge # None]

\* ret: TRUE when a vertex or an edge was engaged
handle_edit_mode_release(app) ==
    IF app.selected_vertex # None \/ app.selected_edge # None
    THEN [app |-> [save_annotation_state(app) EXCEPT !.selected_vertex = None,
                                                     !.selected_edge = None,
                                                     !.drag_start_x = None,
                                                     !.drag_start_y = None,
                                                     !.original_coordinates = None],
          ret |-> TRUE]
    ELSE [app |-> app, ret |-> FALSE]

----------------------------------------------------------------------------
\* ImageLabelingTool: drawing

add_point_annotation(app, x, y) ==
    add_annotation(app, "Point", <<x, y>>, app.selected_label, app.annotation_color).am

\* A faulty add_rectangle_annotation / add_circle_annotation that keeps the
\* corners in the order of the drag (C13)
add_box_annotation_AsDragged(app, kind, x1, y1, x2, y2) ==
    LET coords == <<x1, y1, x2, y2>>
    IN IF Max(x1, x2) - Min(x1, x2) < 1 \/ Max(y1, y2) - Min(y1, y2) < 1 THEN app
       ELSE add_annotation(app, kind, coords, app.selected_label,
                           app.annotation_color).am

\* A faulty add_rectangle_annotation / add_circle_annotation without the
\* minimum size (C38)
add_box_annotation_NoMinSize(app, kind, x1, y1, x2, y2) ==
    LET coords == <<Min(x1, x2), Min(y1, y2), Max(x1, x2), Max(y1, y2)>>
    IN add_annotation(app, kind, coords, app.selected_label,
                      app.annotation_color).am

\* add_rectangle_annotation and add_circle_annotation
add_box_annotation(app, kind, x1, y1, x2, y2) ==
    LET coords == <<Min(x1, x2), Min(y1, y2), Max(x1, x2), Max(y1, y2)>>
    IN IF coords[3] - coords[1] < 1 \/ coords[4] - coords[2] < 1 THEN app
       ELSE add_annotation(app, kind, coords, app.selected_label,
                           app.annotation_color).am

----------------------------------------------------------------------------
\* ImageLabelingTool: the canvas events, with the pointer position (x, y) in
\* image space (canvas_to_image_coords of the event's position)

on_canvas_click(app, x, y) ==
    IF app.original_image = NoneStr THEN [app |-> app, ret |-> "none"]
    ELSE IF app.edit_mode /\ app.selected_annotation_index # None
    THEN handle_edit_mode_click(app, x, y)
    ELSE IF app.pan_mode
    THEN [app |-> [app EXCEPT !.is_panning = TRUE], ret |-> "pan"]
    ELSE IF app.current_tool = "None" THEN [app |-> app, ret |-> "none"]
    ELSE IF app.selected_label = NoneStr \/ app.selected_label = ""
    THEN [app |-> app, ret |-> "none"]                  \* check_label_selected
    ELSE IF app.current_tool = "Point"
    THEN [app |-> add_point_annotation(app, x, y), ret |-> "draw"]
    ELSE IF app.current_tool \in {"Rectangle", "Circle"}
    THEN [app |-> [app EXCEPT !.drag_start_pos = <<x, y>>, !.is_drawing = TRUE],
          ret |-> "draw"]
    ELSE IF app.current_tool = "Polygon"
    THEN [app |-> [app EXCEPT !.polygon_points = Append(@, <<x, y>>)], ret |-> "draw"]
    ELSE [app |-> app, ret |-> "none"]

\* A faulty on_canvas_drag that commits the provisional shape of a Rectangle
\* or Circle draft on every frame (C32)
on_canvas_drag_Commits(app, x, y) ==
    IF app.edit_mode THEN handle_edit_mode_drag(app, x, y)
    ELSE IF /\ app.is_drawing
            /\ app.current_tool \in {"Rectangle", "Circle"}
            /\ app.drag_start_pos # None
    THEN [app |-> add_box_annotation(app, app.current_tool, app.drag_start_pos[1],
                                     app.drag_start_pos[2], x, y),
          ret |-> FALSE]
    ELSE [app |-> app, ret |-> FALSE]

on_canvas_drag(app, x, y) ==
    IF app.edit_mode THEN handle_edit_mode_drag(app, x, y)
    ELSE [app |-> app, ret |-> FALSE]      \* panning and the temporary shape

finish_drawing(cm) == [cm EXCEPT !.is_drawing = FALSE]

on_canvas_release(app, x, y) ==
    IF app.edit_mode THEN handle_edit_mode_release(app)
    ELSE IF app.pan_mode /\ app.is_panning
    THEN [app |-> [app EXCEPT !.is_panning = FALSE], ret |-> FALSE]
    ELSE IF /\ app.is_drawing
            /\ app.current_tool \in {"Rectangle", "Circle"}
            /\ app.drag_start_pos # None
    THEN LET sx == app.drag_start_pos[1]
             sy == app.drag_start_pos[2]
             drag_distance == calculate_distance(sx, sy, x, y)
             \* drag_distance (in display space) >= min_drag_distance
             far == ~BelowThreshold(drag_distance, min_drag_distance, app.zoom_factor)
             added == IF far
                      THEN add_box_annotation(app, app.current_tool, sx, sy, x, y)
                      ELSE app
         IN [app |-> [finish_drawing(added) EXCEPT !.drag_start_pos = None],
             ret |-> FALSE]
    ELSE [app |-> app, ret |-> FALSE]

----------------------------------------------------------------------------
\* ImageLabelingTool: polygons, cancelling, and the zoom

\* The loop of add_polygon_annotation: [(x1, y1), ...] to [x1, y1, ...]
Flatten(points) ==
    [i \in 1..(2 * Len(points)) |-> points[(i + 1) \div 2][2 - (i % 2)]]

add_polygon_annotation(app, points) ==
    add_annotation(app, "Polygon", Flatten(points), app.selected_label,
                   app.annotation_color).am

\* A faulty complete_polygon that keeps the accumulated points after it has
\* added the polygon (C17)
complete_polygon_KeepPoints(app) ==
    IF app.current_tool = "Polygon" /\ Len(app.polygon_points) >= 3
    THEN [app |-> add_polygon_annotation(app, app.polygon_points), ret |-> TRUE]
    ELSE [app |-> app, ret |-> FALSE]

\* ImageLabelingTool.complete_polygon; CanvasManager.complete_polygon returns
\* True exactly when it holds three points or more.
complete_polygon(app) ==
    IF app.current_tool = "Polygon" /\ Len(app.polygon_points) >= 3
    THEN [app |-> [add_polygon_annotation(app, app.polygon_points)
                       EXCEPT !.polygon_points = <<>>],
          ret |-> TRUE]
    ELSE [app |-> app, ret |-> FALSE]

on_canvas_right_click(app) ==
    IF app.current_tool = "Polygon" THEN complete_polygon(app)
    ELSE [app |-> app, ret |-> FALSE]

\* CanvasManager.cancel_polygon
cancel_polygon(cm) == [cm EXCEPT !.polygon_points = <<>>]

\* ret: TRUE when a draft was dropped
cancel_drawing(app) ==
    IF app.edit_mode THEN [app |-> exit_edit_mode(app), ret |-> FALSE]
    ELSE IF app.is_drawing \/ app.polygon_points # <<>>
    THEN [app |-> [cancel_polygon(finish_drawing(app)) EXCEPT !.drag_start_pos = None],
          ret |-> TRUE]
    ELSE [app |-> app, ret |-> FALSE]

\* The sum of the shoelace formula over the vertices i..n of coords (the
\* loop of calculate_polygon_area, counted from 1)
RECURSIVE Shoelace(_, _, _)
Shoelace(coords, i, n) ==
    IF i > n THEN 0
    ELSE LET j == (i % n) + 1
         IN coords[2 * i - 1] * coords[2 * j] - coords[2 * i] * coords[2 * j - 1]
                + Shoelace(coords, i + 1, n)

\* A faulty calculate_polygon_area that returns the signed area (C31)
calculate_polygon_area_Signed(coords) ==
    [num |-> Shoelace(coords, 1, Len(coords) \div 2), den |-> 2]

\* utils.calculate_polygon_area; abs(area) / 2 is the fraction num / den
calculate_polygon_area(coords) ==
    LET area == Shoelace(coords, 1, Len(coords) \div 2)
    IN [num |-> IF area < 0 THEN -area ELSE area, den |-> 2]

\* AnnotationManager.get_annotation_details: the entries of the details that
\* depend on the kind (a Polygon: the number of its vertices and its area,
\* which '.1f' writes exactly, an area of integer vertices being a multiple
\* of 0.5)
get_annotation_details(annotation) ==
    IF annotation.type = "Polygon"
    THEN [type |-> annotation.type,
          num_vertices |-> Len(annotation.coordinates) \div 2,
          area |-> calculate_polygon_area(annotation.coordinates)]
    ELSE [type |-> annotation.type]

\* utils.clamp_value
clamp_value(value, min_val, max_val) == Max(min_val, Min(value, max_val))

\* CanvasManager.fit_to_window; `fit` is min(scale_x, scale_y) * 0.9, which
\* the sizes of the window and of the image decide.
fit_to_window(cm, fit) ==
    IF cm.original_image = NoneStr THEN cm
    ELSE [cm EXCEPT !.zoom_factor = clamp_value(fit, MIN_ZOOM, MAX_ZOOM)]

\* The zoom is in tenths.  Where a step of the zoom leaves the tenths, the
\* product is rounded up and the quotient down, so that a step changes the
\* zoom in the model wherever it does in the source.
Scaled(zoom, percent) == (zoom * percent + 99) \div 100
Unscaled(zoom, percent) == (zoom * 100) \div percent

\* A faulty zoom_in that does not clamp the product (C30)
zoom_in_Unclamped(cm) ==
    IF cm.zoom_factor < MAX_ZOOM
    THEN [cm EXCEPT !.zoom_factor = Scaled(@, 120)]
    ELSE cm

\* CanvasManager.zoom_in, zoom_out and reset_zoom
zoom_in(cm) ==
    IF cm.zoom_factor < MAX_ZOOM
    THEN [cm EXCEPT !.zoom_factor = clamp_value(Scaled(@, 120), MIN_ZOOM, MAX_ZOOM)]
    ELSE cm

zoom_out(cm) ==
    IF cm.zoom_factor > MIN_ZOOM
    THEN [cm EXCEPT !.zoom_factor = clamp_value(Unscaled(@, 120), MIN_ZOOM, MAX_ZOOM)]
    ELSE cm

reset_zoom(cm) == [cm EXCEPT !.zoom_factor = ZOOM_FACTOR]

\* CanvasManager.handle_mouse_wheel; the event carries delta (Windows) and
\* num (the button of the Linux wheel events)
handle_mouse_wheel(cm, event) ==
    IF cm.original_image = NoneStr THEN cm
    ELSE IF event.delta > 0 \/ event.num = 4
    THEN IF cm.zoom_factor < MAX_ZOOM
         THEN [cm EXCEPT !.zoom_factor = clamp_value(Scaled(@, 110), MIN_ZOOM, MAX_ZOOM)]
         ELSE cm
    ELSE IF event.delta < 0 \/ event.num = 5
    THEN IF cm.zoom_factor > MIN_ZOOM
         THEN [cm EXCEPT !.zoom_factor = clamp_value(Unscaled(@, 110), MIN_ZOOM, MAX_ZOOM)]
         ELSE cm
    ELSE cm

\* ImageLabelingTool.on_mouse_wheel
on_mouse_wheel(app, event) == handle_mouse_wheel(app, event)

\* A faulty canvas_to_image_coords that forgets the zoom (C19)
canvas_to_image_coords_NoZoom(cm, canvas_x, canvas_y) == <<canvas_x, canvas_y>>

\* CanvasManager.canvas_to_image_coords of an unscrolled canvas: the position
\* divided by the zoom (the zoom is in tenths; the positions drawn are those
\* the division leaves whole).
canvas_to_image_coords(cm, canvas_x, canvas_y) ==
    <<(canvas_x * ZOOM_FACTOR) \div cm.zoom_factor,
      (canvas_y * ZOOM_FACTOR) \div cm.zoom_factor>>

----------------------------------------------------------------------------
\* FileIOManager: COCO export and import.  A COCO document is a dict: a
\* function from its top-level keys; "images", "annotations" and "categories"
\* are lists of dicts.  float() is the identity on the numbers of the model,
\* and os.path.basename on the file names of the folder.

RequiredKeys == {"images", "annotations", "categories"}

\* min() and max() of a non-empty collection
MinOf(S) == CHOOSE m \in S : \A n \in S : m <= n
MaxOf(S) == CHOOSE m \in S : \A n \in S : m >= n

\* {label: i for i, label in enumerate(labels, 1)}[label]
CategoryId(list, label) ==
    MaxOf({i \in 1..Len(list) : list[i] = label})

\* The body of the loop of export_coco over the annotations of an image: the
\* COCO annotation without its ids, or None where the annotation is passed
\* over (no label, a label outside the label set, an exception).
export_annotation(ann, list) ==
    LET coords == ann.coordinates
        n == Len(coords)
    IN IF ann.type \notin {"Point", "Rectangle", "Circle", "Polygon"} THEN None
       ELSE IF ann.label \in {NoneStr, ""} \/ ~InList(ann.label, list) THEN None
       ELSE IF ann.type = "Point"
       THEN IF n # 2 THEN None
            ELSE LET x == coords[1]
                     y == coords[2]
                 IN Some([category_id |-> CategoryId(list, ann.label),
                          bbox |-> <<x - 1, y - 1, 2, 2>>,
                          segmentation |-> << <<x - 1, y - 1, x + 1, y - 1,
                                                x + 1, y + 1, x - 1, y + 1>> >>])
       ELSE IF ann.type \in {"Rectangle", "Circle"}
       THEN IF n # 4 THEN None
            ELSE LET x1 == Min(coords[1], coords[3])
                     x2 == Max(coords[1], coords[3])
                     y1 == Min(coords[2], coords[4])
                     y2 == Max(coords[2], coords[4])
                 IN Some([category_id |-> CategoryId(list, ann.label),
                          bbox |-> <<x1, y1, x2 - x1, y2 - y1>>,
                          segmentation |-> << <<x1, y1, x2, y1, x2, y2, x1, y2>> >>])
       ELSE IF n < 2 THEN None                         \* min() of an empty list
            ELSE LET xs == {coords[i] : i \in {j \in 1..n : j % 2 = 1}}
                     ys == {coords[i] : i \in {j \in 1..n : j % 2 = 0}}
                 IN Some([category_id |-> CategoryId(list, ann.label),
                          bbox |-> <<MinOf(xs), MinOf(ys), MaxOf(xs) - MinOf(xs),
                                     MaxOf(ys) - MinOf(ys)>>,
                          segmentation |-> <<coords>>])

\* The COCO annotations export_coco writes for the images from image_id on,
\* in its order, without the annotation ids
RECURSIVE ExportFrom(_, _, _)
ExportFrom(app, image_id, readable) ==
    IF image_id > Len(app.images) THEN <<>>
    ELSE LET image_path == app.images[image_id]
             image_annotations == IF image_path \in DOMAIN app.annotations
                                  THEN app.annotations[image_path] ELSE <<>>
             written == SelectSeq([i \in 1..Len(image_annotations) |->
                                      export_annotation(image_annotations[i], app.labels)],
                                  LAMBDA o : o # None)
             here == IF image_path \in readable
                     THEN [i \in 1..Len(written) |->
                              [image_id |-> image_id,
                               category_id |-> Val(written[i]).category_id,
                               bbox |-> Val(written[i]).bbox,
                               segmentation |-> Val(written[i]).segmentation]]
                     ELSE <<>>
         IN here \o ExportFrom(app, image_id + 1, readable)

\* export_coco with a file chosen in the dialog: the workspace after it (the
\* active sequence is recorded for the active image first) and the document
\* it writes.  `readable` is the set of image files Image.open can open.
export_coco(app, readable) ==
    LET saved == IF app.current_image_index >= 0
                 THEN save_image_annotations(app, app.current_image_path)
                 ELSE app
        coco_images == SelectSeq([i \in 1..Len(saved.images) |->
                                     [id |-> i, file_name |-> saved.images[i]]],
                                 LAMBDA img : img.file_name \in readable)
        anns == ExportFrom(saved, 1, readable)
    IN [app |-> saved,
        doc |-> [images |-> coco_images,
                 annotations |-> [i \in 1..Len(anns) |->
                                     [id |-> i,
                                      image_id |-> anns[i].image_id,
                                      category_id |-> anns[i].category_id,
                                      bbox |-> anns[i].bbox,
                                      segmentation |-> anns[i].segmentation]],
                 categories |-> [i \in 1..Len(saved.labels) |->
                                    [id |-> i, name |-> saved.labels[i]]]]]

\* The keys of {x['id']: ... for x in list}, in the order a dict keeps them
\* (that of their first occurrence), and the entry each key ends up with
\* (the last one of that id)
RECURSIVE FirstIds(_, _)
FirstIds(list, seen) ==
    IF list = <<>> THEN <<>>
    ELSE IF Head(list).id \in seen THEN FirstIds(Tail(list), seen)
    ELSE <<Head(list).id>> \o FirstIds(Tail(list), seen \cup {Head(list).id})

LastWith(list, id) ==
    list[MaxOf({i \in 1..Len(list) : list[i].id = id})]

\* The loop of import_coco that adds the categories as labels; `color` is the
\* random colour a new label gets
RECURSIVE AddCategories(_, _, _)
AddCategories(app, categories, color) ==
    IF categories = <<>> THEN app
    ELSE LET label == Head(categories).name
             added == IF InList(label, app.labels) THEN app
                      ELSE [app EXCEPT !.labels = Append(@, label),
                                       !.label_colors =
                                           IF label \in DOMAIN @ THEN @
                                           ELSE DictSet(@, label, color)]
         IN AddCategories(added, Tail(categories), color)

\* The body of the loop of import_coco over the annotations of an image:
\* "processed" with the annotation made, "skipped" where skipped_annotations
\* is incremented, "passed" where the loop continues without counting.
import_annotation(ann, category_map, colors) ==
    IF ann.category_id \notin DOMAIN category_map THEN [outcome |-> "passed"]
    ELSE LET label == category_map[ann.category_id]
             color == IF label \in DOMAIN colors THEN colors[label] ELSE "#FF0000"
         IN IF Len(ann.bbox) = 4
            THEN [outcome |-> "processed",
                  annotation |-> [type |-> "Rectangle",
                                  coordinates |-> <<ann.bbox[1], ann.bbox[2],
                                                    ann.bbox[1] + ann.bbox[3],
                                                    ann.bbox[2] + ann.bbox[4]>>,
                                  label |-> label,
                                  color |-> color]]
            ELSE IF ann.segmentation # <<>> /\ Len(ann.segmentation[1]) >= 6
            THEN [outcome |-> "processed",
                  annotation |-> [type |-> "Polygon",
                                  coordinates |-> ann.segmentation[1],
                                  label |-> label,
                                  color |-> color]]
            ELSE [outcome |-> "skipped"]

\* The outcomes of the annotations of the image img_id, in the document's
\* order
Outcomes(coco_data, img_id, category_map, colors) ==
    LET of_image == SelectSeq(coco_data.annotations, LAMBDA ann : ann.image_id = img_id)
    IN [i \in 1..Len(of_image) |-> import_annotation(of_image[i], category_map, colors)]

CountOf(outcomes, outcome) ==
    Cardinality({i \in 1..Len(outcomes) : outcomes[i].outcome = outcome})

\* A faulty import_coco that looks for the required keys only after it has
\* recorded the active sequence for the active image (C27)
import_coco_LateValidation(app, coco_data, color) ==
    LET saved == IF app.current_image_index >= 0
                 THEN save_image_annotations(app, app.current_image_path)
                 ELSE app
    IN IF app.images = <<>>
       THEN [app |-> app, ret |-> FALSE, processed |-> 0, skipped |-> 0]
       ELSE [app |-> saved, ret |-> FALSE, processed |-> 0, skipped |-> 0]

\* import_coco with a file chosen in the dialog that holds the JSON document
\* coco_data: the workspace after it, whether the import went through, and
\* the two counts it reports.
import_coco(app, coco_data, color) ==
    IF app.images = <<>>
    THEN [app |-> app, ret |-> FALSE, processed |-> 0, skipped |-> 0]
    ELSE IF ~(RequiredKeys \subseteq DOMAIN coco_data)
    THEN [app |-> app, ret |-> FALSE, processed |-> 0, skipped |-> 0]
    ELSE
    LET saved == IF app.current_image_index >= 0
                 THEN save_image_annotations(app, app.current_image_path)
                 ELSE app
        category_map == [id \in {coco_data.categories[i].id :
                                     i \in 1..Len(coco_data.categories)} |->
                            LastWith(coco_data.categories, id).name]
        image_ids == FirstIds(coco_data.images, {})
        file_name(img_id) == LastWith(coco_data.images, img_id).file_name
        labelled == AddCategories(saved, coco_data.categories, color)
        matched == SelectSeq(image_ids, LAMBDA img_id : InList(file_name(img_id), app.images))
        outcomes(img_id) == Outcomes(coco_data, img_id, category_map, labelled.label_colors)
        made(img_id) ==
            LET done == SelectSeq(outcomes(img_id), LAMBDA o : o.outcome = "processed")
            IN [i \in 1..Len(done) |-> done[i].annotation]
        \* imported_annotations[img_path]: the last matched image of that
        \* file name that has annotations sets it
        filled(img_path) == {i \in 1..Len(matched) :
                                /\ file_name(matched[i]) = img_path
                                /\ made(matched[i]) # <<>>}
        imported_annotations ==
            [img_path \in {file_name(matched[i]) : i \in {j \in 1..Len(matched) :
                                                              made(matched[j]) # <<>>}} |->
                made(matched[MaxOf(filled(img_path))])]
        updated == [labelled EXCEPT !.annotations =
                       [img_path \in (DOMAIN @) \cup (DOMAIN imported_annotations) |->
                           IF img_path \in DOMAIN imported_annotations
                           THEN imported_annotations[img_path] ELSE @[img_path]]]
        RECURSIVE Total(_, _)
        Total(ids, outcome) ==
            IF ids = <<>> THEN 0
            ELSE CountOf(outcomes(Head(ids)), outcome) + Total(Tail(ids), outcome)
    IN [app |-> IF updated.current_image_path \in DOMAIN imported_annotations
                THEN load_image_annotations(updated, updated.current_image_path)
                ELSE updated,
        ret |-> TRUE,
        processed |-> Total(matched, "processed"),
        skipped |-> Total(matched, "skipped")]

\* The JSON document of a file without one of its top-level keys
Lacking(coco_data, key) ==
    [k \in (DOMAIN coco_data) \ {key} |-> coco_data[k]]

\* The files the user can choose in the dialog of import_coco: the file an
\* export of this workspace writes, the file of another tool, and each of
\* them without one of the required keys
CocoDocuments(app) ==
    LET whole == {export_coco(app, {app.images[i] : i \in 1..Len(app.images)}).doc,
                  ForeignDocument}
    IN whole \cup {Lacking(coco_data, key) : coco_data \in whole, key \in RequiredKeys}

ExportCoco(readable) ==
    /\ SetState(IF images = <<>> THEN State ELSE export_coco(State, readable).app)
    /\ Hist("export", images # <<>>)
    /\ gesture' = IdleGesture
    /\ UNCHANGED envVars

ImportCoco(coco_data, color) ==
    /\ SetState(import_coco(State, coco_data, color).app)
    /\ Hist("import", import_coco(State, coco_data, color).ret)
    /\ gesture' = IdleGesture
    /\ UNCHANGED envVars

\* The vertices of the polygons in the specification of areas, and the
\* polygons there: every list of three to MaxAreaVertices of these vertices
AreaPoints == {<<0, 0>>, <<10, 0>>, <<10, 10>>, <<0, 10>>, <<5, 20>>}
VertexLists(n) == [1..n -> AreaPoints]
AreaInputs ==
    { [type |-> "Polygon", coordinates |-> Flatten(points), label |-> "cat"] :
        points \in UNION {VertexLists(n) : n \in 3..MaxAreaVertices} }

\* on_annotation_select with the row `index` of the listbox selected: the
\* index is stored and, where it names an annotation, its details are shown
on_annotation_select(app, index) ==
    [app EXCEPT !.selected_annotation_index = Some(index)]

OnAnnotationSelect(index) ==
    /\ SetState(on_annotation_select(State, index))
    /\ Hist("details", HasAnnotation(State, Some(index)))
    /\ gesture' = IdleGesture
    /\ UNCHANGED envVars

\* The zoom buttons and the mouse wheel; an event is recorded with whether
\* it changed the zoom
ZoomIn ==
    /\ SetState(zoom_in(State))
    /\ Hist("zoom_in", zoom_in(State).zoom_factor # zoom_factor)
    /\ gesture' = IdleGesture
    /\ UNCHANGED envVars

ZoomOut ==
    /\ SetState(zoom_out(State))
    /\ Hist("zoom_out", zoom_out(State).zoom_factor # zoom_factor)
    /\ gesture' = IdleGesture
    /\ UNCHANGED envVars

ResetZoom ==
    /\ SetState(reset_zoom(State))
    /\ Hist("reset_zoom", zoom_factor # ZOOM_FACTOR)
    /\ gesture' = IdleGesture
    /\ UNCHANGED envVars

OnMouseWheel(event) ==
    /\ SetState(on_mouse_wheel(State, event))
    /\ Hist("wheel", on_mouse_wheel(State, event).zoom_factor # zoom_factor)
    /\ gesture' = IdleGesture
    /\ UNCHANGED envVars

----------------------------------------------------------------------------
\* The events of the main specification

EditAnnotation(selection) ==
    /\ selection \in 0..(Len(current_annotations) - 1)
    /\ SetState(edit_annotation(State, Some(selection)))
    /\ Hist("edit", TRUE)
    /\ gesture' = IdleGesture
    /\ UNCHANGED envVars

\* <Button-1>
OnCanvasClick(x, y) ==
    /\ ~button1
    /\ LET r == on_canvas_click(State, x, y)
       IN /\ Len(r.app.current_annotations) <= MaxAnns
          /\ SetState(r.app)
          /\ Hist("press", r.ret \in {"vertex", "edge"})
          /\ gesture' = IF r.ret \in {"vertex", "edge"}
                        THEN [phase |-> "pressed",
                              undoLen |-> Len(undo_stack),
                              index |-> Val(selected_annotation_index),
                              coords |-> r.app.original_coordinates]
                        ELSE IdleGesture
    /\ button1' = TRUE

\* <B1-Motion>
OnCanvasDrag(x, y) ==
    /\ button1
    /\ LET r == on_canvas_drag(State, x, y)
       IN /\ SetState(r.app)
          /\ Hist("drag", r.ret)
          /\ gesture' = IF gesture.phase \in {"pressed", "dragged"}
                        THEN IF r.ret THEN [gesture EXCEPT !.phase = "dragged"]
                                      ELSE gesture
                        ELSE IdleGesture
    /\ UNCHANGED button1

\* <ButtonRelease-1>
OnCanvasRelease(x, y) ==
    /\ button1
    /\ LET r == on_canvas_release(State, x, y)
       IN /\ Len(r.app.current_annotations) <= MaxAnns
          /\ SetState(r.app)
          /\ Hist("release", r.ret)
          /\ gesture' = IF gesture.phase = "dragged" /\ r.ret
                        THEN [gesture EXCEPT !.phase = "released"]
                        ELSE IdleGesture
    /\ button1' = FALSE

\* <<ComboboxSelected>> of the tool box
OnToolChange(tool) ==
    /\ SetState(on_tool_change(State, tool))
    /\ Hist("tool", TRUE)
    /\ gesture' = IdleGesture
    /\ UNCHANGED envVars

\* <Return>
CompletePolygon ==
    /\ LET r == complete_polygon(State)
       IN /\ Len(r.app.current_annotations) <= MaxAnns
          /\ SetState(r.app)
          /\ Hist("complete", r.ret)
    /\ gesture' = IdleGesture
    /\ UNCHANGED envVars

\* <Button-3>
OnCanvasRightClick ==
    /\ LET r == on_canvas_right_click(State)
       IN /\ Len(r.app.current_annotations) <= MaxAnns
          /\ SetState(r.app)
          /\ Hist("complete", r.ret)
    /\ gesture' = IdleGesture
    /\ UNCHANGED envVars

\* <Escape>
CancelDrawing ==
    /\ LET r == cancel_drawing(State)
       IN SetState(r.app) /\ Hist("cancel", r.ret)
    /\ gesture' = IdleGesture
    /\ UNCHANGED envVars

\* The button "Fit to Window"
FitToWindow(fit) ==
    /\ SetState(fit_to_window(State, fit))
    /\ Hist("fit", original_image # NoneStr)
    /\ gesture' = IdleGesture
    /\ UNCHANGED envVars

\* The main specification: up to MaxSteps events, each any event of the store,
\* the images, the labels and an edit-mode gesture; a folder is opened once.
Next ==
    \/ \E ok \in BOOLEAN :
           steps < MaxSteps /\ images = <<>> /\ LoadFolder(ImageFiles, ok)
    \/ \E selection \in 0..(Len(ImageFiles) - 1), ok \in BOOLEAN :
           steps < MaxSteps /\ OnImageSelect(selection, ok)
    \/ \E input \in AddInputs : steps < MaxSteps /\ AddAnnotation(input)
    \/ \E index \in -1..MaxAnns : steps < MaxSteps /\ DeleteAnnotation(index)
    \/ \E index \in -1..MaxAnns, data \in UpdateInputs :
           steps < MaxSteps /\ UpdateAnnotation(index, data)
    \/ steps < MaxSteps /\ ClearAnnotations
    \/ steps < MaxSteps /\ Undo
    \/ steps < MaxSteps /\ Redo
    \/ \E label \in LabelNames : steps < MaxSteps /\ AddLabel(label, LabelColor)
    \/ \E index \in 0..1 : steps < MaxSteps /\ DeleteLabel(index)
    \/ \E selection \in 0..(MaxAnns - 1) :
           steps < MaxSteps /\ EditAnnotation(selection)
    \/ \E x \in PointerXs, y \in PointerYs : steps < MaxSteps /\ OnCanvasClick(x, y)
    \/ \E x \in PointerXs, y \in PointerYs : steps < MaxSteps /\ OnCanvasDrag(x, y)
    \/ \E x \in PointerXs, y \in PointerYs : steps < MaxSteps /\ OnCanvasRelease(x, y)

Spec == Init /\ [][Next]_vars

\* The specification of validation: up to MaxAddSteps events, each an
\* add_annotation with arguments of any shape, a deletion, an undo or a redo.
NextAdd ==
    \/ \E input \in WideAddInputs : steps < MaxAddSteps /\ AddAnnotation(input)
    \/ \E index \in 0..(MaxAnns - 1) : steps < MaxAddSteps /\ DeleteAnnotation(index)
    \/ steps < MaxAddSteps /\ Undo
    \/ steps < MaxAddSteps /\ Redo

SpecAdd == Init /\ [][NextAdd]_vars

\* The canvas events at a position of the canvas
PressAt(c) ==
    LET p == canvas_to_image_coords(State, c[1], c[2]) IN OnCanvasClick(p[1], p[2])

DragAt(c) ==
    LET p == canvas_to_image_coords(State, c[1], c[2]) IN OnCanvasDrag(p[1], p[2])

ReleaseAt(c) ==
    LET p == canvas_to_image_coords(State, c[1], c[2]) IN OnCanvasRelease(p[1], p[2])

\* The specification of editing: up to MaxEditSteps events of a session in
\* which a folder is opened and a label added first; then shapes are drawn
\* with the pointer, edited in edit mode, deleted, undone and redone.  The
\* widgets beside the canvas are used while the button is up, the keys at
\* any time.
NextEdit ==
    \/ steps < MaxEditSteps /\ images = <<>> /\ LoadFolder(ImageFiles, TRUE)
    \/ \E label \in LabelNames :
           steps < MaxEditSteps /\ images # <<>> /\ labels = <<>>
               /\ AddLabel(label, LabelColor)
    \/ \E tool \in EditTools :
           steps < MaxEditSteps /\ labels # <<>> /\ ~button1 /\ OnToolChange(tool)
    \/ \E c \in EditPoints : steps < MaxEditSteps /\ labels # <<>> /\ PressAt(c)
    \/ \E c \in EditPoints : steps < MaxEditSteps /\ DragAt(c)
    \/ \E c \in EditPoints : steps < MaxEditSteps /\ ReleaseAt(c)
    \/ \E selection \in 0..(MaxAnns - 1) :
           steps < MaxEditSteps /\ ~button1 /\ EditAnnotation(selection)
    \/ \E index \in 0..(MaxAnns - 1) :
           steps < MaxEditSteps /\ index < Len(current_annotations)
               /\ DeleteAnnotation(index)
    \/ steps < MaxEditSteps /\ labels # <<>> /\ Undo
    \/ steps < MaxEditSteps /\ labels # <<>> /\ Redo

SpecEdit == Init /\ [][NextEdit]_vars

\* The specification of polygons and drafts: up to MaxPolySteps events of a
\* session in which a folder is opened once and there is one label at most:
\* points are clicked, polygons completed, drafts cancelled, tools changed,
\* the label added and deleted, and edit mode entered (with the button up).
NextPoly ==
    \/ steps < MaxPolySteps /\ images = <<>> /\ LoadFolder(ImageFiles, TRUE)
    \/ \E label \in LabelNames :
           steps < MaxPolySteps /\ labels = <<>> /\ AddLabel(label, LabelColor)
    \/ steps < MaxPolySteps /\ DeleteLabel(0)
    \/ \E tool \in PolyTools :
           steps < MaxPolySteps /\ OnToolChange(tool)
    \/ \E c \in PolyPoints : steps < MaxPolySteps /\ PressAt(c)
    \/ \E c \in PolyPoints : steps < MaxPolySteps /\ ReleaseAt(c)
    \/ steps < MaxPolySteps /\ CompletePolygon
    \/ steps < MaxPolySteps /\ OnCanvasRightClick
    \/ steps < MaxPolySteps /\ CancelDrawing
    \/ \E selection \in 0..(MaxAnns - 1) :
           steps < MaxPolySteps /\ ~button1 /\ EditAnnotation(selection)

SpecPoly == Init /\ [][NextPoly]_vars

\* The specification of drawing: up to MaxDrawSteps events of a session in
\* which a folder is opened once (its first image may fail to open) and
\* there is one label at most: the tool is chosen, the image zoomed, the
\* label added and deleted, the button pressed and released on the canvas,
\* and edit mode entered (with the button up).
NextDraw ==
    \/ \E ok \in BOOLEAN :
           steps < MaxDrawSteps /\ images = <<>> /\ LoadFolder(ImageFiles, ok)
    \/ \E label \in LabelNames :
           steps < MaxDrawSteps /\ labels = <<>> /\ AddLabel(label, LabelColor)
    \/ steps < MaxDrawSteps /\ DeleteLabel(0)
    \/ \E tool \in DrawTools : steps < MaxDrawSteps /\ OnToolChange(tool)
    \/ \E fit \in ZoomLevels : steps < MaxDrawSteps /\ FitToWindow(fit)
    \/ \E c \in DrawPoints : steps < MaxDrawSteps /\ PressAt(c)
    \/ \E c \in DrawPoints : steps < MaxDrawSteps /\ ReleaseAt(c)
    \/ \E selection \in 0..(MaxAnns - 1) :
           steps < MaxDrawSteps /\ ~button1 /\ EditAnnotation(selection)

SpecDraw == Init /\ [][NextDraw]_vars

\* The specification of edit gestures: up to MaxShapeSteps events of a
\* session in which a folder is opened once; shapes of every kind are added,
\* the image is zoomed, and an annotation is edited with the pointer: a press
\* that engages a vertex or an edge, drag frames, a release.
NextShape ==
    \/ steps < MaxShapeSteps /\ images = <<>> /\ LoadFolder(ImageFiles, TRUE)
    \/ \E input \in ShapeInputs :
           steps < MaxShapeSteps /\ images # <<>> /\ ~edit_mode /\ AddAnnotation(input)
    \/ \E fit \in ZoomLevels :
           steps < MaxShapeSteps /\ current_annotations # <<>> /\ ~edit_mode
               /\ zoom_factor = ZOOM_FACTOR /\ FitToWindow(fit)
    \/ \E selection \in 0..(MaxAnns - 1) :
           steps < MaxShapeSteps /\ ~edit_mode /\ EditAnnotation(selection)
    \/ \E c \in ShapePoints : steps < MaxShapeSteps /\ edit_mode /\ PressAt(c)
    \/ \E c \in ShapePoints : steps < MaxShapeSteps /\ edit_mode /\ DragAt(c)
    \/ \E c \in ShapePoints : steps < MaxShapeSteps /\ edit_mode /\ ReleaseAt(c)

SpecShape == Init /\ [][NextShape]_vars

\* The specification of labels: up to MaxLabelSteps events of a session in
\* which a folder is opened once; labels are added, renamed, recoloured and
\* deleted, and points are added with the selected label and its colour.
NextLabel ==
    \/ steps < MaxLabelSteps /\ images = <<>> /\ LoadFolder(ImageFiles, TRUE)
    \/ \E label \in LabelTexts, color \in LabelColors :
           steps < MaxLabelSteps /\ images # <<>> /\ AddLabel(label, color)
    \/ \E index \in 0..1, label \in LabelTexts, color \in LabelColors :
           steps < MaxLabelSteps /\ EditLabel(index, label, color)
    \/ \E index \in 0..1 : steps < MaxLabelSteps /\ DeleteLabel(index)
    \/ \E c \in LabelPoints :
           steps < MaxLabelSteps /\ selected_label # NoneStr
               /\ AddAnnotation([type |-> "Point", coordinates |-> c,
                                 label |-> selected_label])

SpecLabel == Init /\ [][NextLabel]_vars

----------------------------------------------------------------------------
\* The specification of COCO files: a folder is opened, labels and shapes are
\* added, images are selected, and the workspace is exported to and imported
\* from COCO documents.

NextCoco ==
    \/ steps < MaxCocoSteps /\ images = <<>> /\ LoadFolder(ImageFiles, TRUE)
    \/ \E label \in {"cat", "dog"} :
           steps < MaxCocoSteps /\ images # <<>> /\ AddLabel(label, LabelColor)
    \/ \E input \in CocoInputs :
           steps < MaxCocoSteps /\ images # <<>> /\ AddAnnotation(input)
    \/ \E selection \in 0..1 :
           steps < MaxCocoSteps /\ OnImageSelect(selection, TRUE)
    \/ \E readable \in ReadableFiles :
           steps < MaxCocoSteps /\ images # <<>> /\ ExportCoco(readable)
    \/ \E coco_data \in CocoDocuments(State), color \in RandomColors :
           steps < MaxCocoSteps /\ images # <<>> /\ ImportCoco(coco_data, color)

SpecCoco == Init /\ [][NextCoco]_vars

----------------------------------------------------------------------------
\* The specification of zooming: a folder is opened, a shape is added, and
\* the zoom buttons and the mouse wheel are used in any order.

NextZoom ==
    \/ steps < MaxZoomSteps /\ images = <<>> /\ LoadFolder(ImageFiles, TRUE)
    \/ steps < MaxZoomSteps /\ images # <<>> /\ current_annotations = <<>>
          /\ AddAnnotation([type |-> "Rectangle", coordinates |-> <<0, 0, 20, 20>>,
                            label |-> "cat"])
    \/ steps < MaxZoomSteps /\ ZoomIn
    \/ steps < MaxZoomSteps /\ ZoomOut
    \/ steps < MaxZoomSteps /\ ResetZoom
    \/ \E fit \in ZoomFits : steps < MaxZoomSteps /\ FitToWindow(fit)
    \/ \E event \in WheelEvents : steps < MaxZoomSteps /\ OnMouseWheel(event)

SpecZoom == Init /\ [][NextZoom]_vars

----------------------------------------------------------------------------
\* The specification of areas: a folder is opened, a polygon is added and
\* selected in the list, which shows its details.

NextArea ==
    \/ steps < MaxAreaSteps /\ images = <<>> /\ LoadFolder(ImageFiles, TRUE)
    \/ \E input \in AreaInputs :
           steps < MaxAreaSteps /\ images # <<>> /\ current_annotations = <<>>
               /\ AddAnnotation(input)
    \/ \E index \in 0..(MaxAnns - 1) :
           steps < MaxAreaSteps /\ current_annotations # <<>> /\ lastOp # "details"
               /\ OnAnnotationSelect(index)

SpecArea == Init /\ [][NextArea]_vars

----------------------------------------------------------------------------
\* The specification of drafts: the events of the specification of drawing
\* without edit mode, and the pointer moved with the button down.

\* <ButtonRelease-1> at a position of the canvas, with the drawing tools:
\* the history keeps the tool and the two ends of the drag where the release
\* ends a Rectangle or Circle draft
ReleaseDraft(c) ==
    /\ button1 /\ ~edit_mode
    /\ LET p == canvas_to_image_coords(State, c[1], c[2])
           r == on_canvas_release(State, p[1], p[2])
           draft == /\ is_drawing /\ drag_start_pos # None /\ ~pan_mode
                    /\ current_tool \in {"Rectangle", "Circle"}
       IN /\ Len(r.app.current_annotations) <= MaxAnns
          /\ SetState(r.app)
          /\ HistArg("release", r.ret,
                     IF draft
                     THEN [NoArg EXCEPT !.type = current_tool,
                                        !.coordinates = drag_start_pos \o p]
                     ELSE NoArg)
          /\ gesture' = IdleGesture
    /\ button1' = FALSE

NextSketch ==
    \/ steps < MaxSketchSteps /\ images = <<>> /\ LoadFolder(ImageFiles, TRUE)
    \/ \E label \in LabelNames :
           steps < MaxSketchSteps /\ labels = <<>> /\ AddLabel(label, LabelColor)
    \/ steps < MaxSketchSteps /\ DeleteLabel(0)
    \/ \E tool \in DrawTools : steps < MaxSketchSteps /\ OnToolChange(tool)
    \/ \E fit \in ZoomLevels : steps < MaxSketchSteps /\ FitToWindow(fit)
    \/ \E c \in DrawPoints : steps < MaxSketchSteps /\ PressAt(c)
    \/ \E c \in DrawPoints : steps < MaxSketchSteps /\ DragAt(c)
    \/ \E c \in DrawPoints : steps < MaxSketchSteps /\ ReleaseDraft(c)

SpecSketch == Init /\ [][NextSketch]_vars

----------------------------------------------------------------------------
\* The specification of resets: folders are opened one after the other (with
\* images or without, the first image opening or not), each resetting the
\* workspace; a label and points are added, an annotation is edited, and the
\* history is walked.

NextReset ==
    \/ \E files \in {ImageFiles, <<>>}, ok \in BOOLEAN :
           steps < MaxResetSteps /\ LoadFolder(files, ok)
    \/ \E label \in LabelNames :
           steps < MaxResetSteps /\ images # <<>> /\ labels = <<>>
               /\ AddLabel(label, LabelColor)
    \/ \E c \in LabelPoints :
           steps < MaxResetSteps /\ images # <<>> /\ selected_label # NoneStr
               /\ AddAnnotation([type |-> "Point", coordinates |-> c,
                                 label |-> selected_label])
    \/ steps < MaxResetSteps /\ ~edit_mode /\ EditAnnotation(0)
    \/ steps < MaxResetSteps /\ Undo
    \/ steps < MaxResetSteps /\ Redo

SpecReset == Init /\ [][NextReset]_vars

----------------------------------------------------------------------------
\* The specification of image switches: a folder of two images is opened,
\* images are selected (each opening or not), points are marked on the active
\* image, the history is walked and the annotations are saved.

NextSwitch ==
    \/ \E ok \in BOOLEAN :
           steps < MaxSwitchSteps /\ images = <<>> /\ LoadFolder(ImageFiles, ok)
    \/ \E selection \in 0..(Len(ImageFiles) - 1), ok \in BOOLEAN :
           steps < MaxSwitchSteps /\ OnImageSelect(selection, ok)
    \/ steps < MaxSwitchSteps /\ current_image_index >= 0
           /\ AddAnnotation(PointOn(current_image_index))
    \/ steps < MaxSwitchSteps /\ DeleteAnnotation(0)
    \/ steps < MaxSwitchSteps /\ Undo
    \/ steps < MaxSwitchSteps /\ Redo
    \/ steps < MaxSwitchSteps /\ SaveAnnotations

SpecSwitch == Init /\ [][NextSwitch]_vars

----------------------------------------------------------------------------
\* Properties of the undo/redo history

\* C1: after a successful add, delete, update or clear, an immediately
\* following undo returns success and makes the active sequence equal to the
\* sequence as it was just before that operation.
C1_UndoRestoresPreMutation ==
    (lastOp = "undo" /\ prev.kind = "mutation")
        => (lastRet /\ current_annotations = prev.anns)

\* An undo that followed a successful mutation and changed the sequence back.
C1_Witness ==
    /\ lastOp = "undo" /\ prev.kind = "mutation" /\ lastRet
    /\ current_annotations = prev.anns
    /\ preAnns # prev.anns

\* C2: where the undo stack is not empty, undo followed immediately by redo
\* leaves the active sequence equal to the sequence before the undo.
C2_UndoRedoRoundTrip ==
    (lastOp = "redo" /\ prev.kind = "undo")
        => (lastRet /\ current_annotations = prev.anns)

\* A redo right after a successful undo, each of which changed the sequence.
C2_Witness ==
    /\ lastOp = "redo" /\ prev.kind = "undo" /\ lastRet
    /\ current_annotations = prev.anns
    /\ preAnns # prev.anns

\* C3: a press that engages a vertex or an edge, n >= 1 drag frames and a
\* release add exactly one snapshot to the undo stack (a stack with room for
\* it is one higher than at the press), and one undo after the release gives
\* the edited annotation the coordinates it had before the press.
C3_GestureIsOneUndoStep ==
    /\ (gesture.phase = "released" /\ gesture.undoLen < max_undo_steps)
           => Len(undo_stack) = gesture.undoLen + 1
    /\ gesture.phase = "undone"
           => /\ lastRet
              /\ gesture.index < Len(current_annotations)
              /\ current_annotations[gesture.index + 1].coordinates = gesture.coords

\* C4: a mutation (add, delete, update, clear or an edit-mode release) applied
\* while the redo stack is not empty leaves it empty, and a redo that follows
\* returns failure and changes nothing.
C4_MutationClearsRedo ==
    /\ (Kind(lastOp, lastRet) \in {"mutation", "release"} /\ preRedoLen > 0)
           => /\ redo_stack = <<>>
              /\ redo(State) = [am |-> State, ret |-> FALSE]
    /\ (lastOp = "redo" /\ prev.kind \in {"mutation", "release"} /\ prev.redoLen > 0)
           => (~lastRet /\ current_annotations = preAnns)

\* A redo that failed right after a mutation had emptied a redo stack.
C4_Witness ==
    /\ lastOp = "redo" /\ ~lastRet
    /\ prev.kind = "mutation" /\ prev.redoLen > 0
    /\ current_annotations # <<>>

\* C5: the undo stack never holds more than max_undo_steps snapshots (the two
\* stacks together never do, which is why redo cannot take it past the
\* bound), and a push onto a full stack evicts the oldest snapshot and keeps
\* the others in order.
C5_UndoStackBounded ==
    /\ Len(undo_stack) <= max_undo_steps
    /\ Len(undo_stack) + Len(redo_stack) <= max_undo_steps
    /\ Len(undo_stack) = max_undo_steps
           => save_annotation_state(State).undo_stack =
                  Append(Tail(undo_stack), [annotations |-> current_annotations])

\* A successful mutation that pushed onto a full undo stack.
C5_Witness ==
    /\ lastOp \in Mutating /\ lastRet
    /\ preUndoLen = max_undo_steps
    /\ Len(undo_stack) = max_undo_steps
    /\ undo_stack[Len(undo_stack)] = [annotations |-> preAnns]

----------------------------------------------------------------------------
\* Properties of the per-image map

\* C6: after an image-selection event that changes the active image
\* identifier, the undo stack and the redo stack are both empty.
C6_SwitchClearsHistory ==
    [][(lastOp' = "select" /\ current_image_path' # current_image_path)
           => (undo_stack' = <<>> /\ redo_stack' = <<>>)]_vars

\* C7: on a switch from the active image A to an image B, the sequence
\* recorded for A becomes the sequence that was active just before the
\* switch, and the active sequence becomes the one recorded for B (empty if
\* none was recorded).
C7_SwitchSavesAndLoads ==
    [][(/\ lastOp' = "select"
        /\ current_image_index >= 0
        /\ current_image_path' # current_image_path)
           => /\ current_image_path \in DOMAIN annotations'
              /\ annotations'[current_image_path] = current_annotations
              /\ current_annotations' =
                     IF current_image_path' \in DOMAIN annotations
                     THEN annotations[current_image_path']
                     ELSE <<>>]_vars

\* C8: add, delete, update, clear, undo, redo, the events of an edit-mode
\* gesture and the deletion of a label leave the sequence recorded for every
\* image other than the active one as it was.
StoreEvents ==
    Mutating \cup {"undo", "redo", "edit", "press", "drag", "release",
                   "delete_label"}

C8_OtherImagesFrozen ==
    [][lastOp' \in StoreEvents
           => \A B \in DOMAIN annotations :
                  B # current_image_path
                      => (B \in DOMAIN annotations' /\ annotations'[B] = annotations[B])]_vars

\* A label was deleted and the active sequence lost it, while another image's
\* recorded sequence still carries the label.
C8_Witness ==
    /\ lastOp = "delete_label"
    /\ preAnns # current_annotations
    /\ \E B \in DOMAIN annotations :
           /\ B # current_image_path
           /\ annotations[B] # <<>>
           /\ annotations[B][1].label # NoneStr

----------------------------------------------------------------------------
\* Properties of validation (under SpecAdd)

\* The arguments C9 names: an unrecognized kind, no coordinates, the wrong
\* coordinate count for the kind, an empty label or none.
InvalidArg(arg) ==
    \/ arg.type \notin {"Point", "Rectangle", "Circle", "Polygon"}
    \/ Len(arg.coordinates) = 0
    \/ arg.type = "Point" /\ Len(arg.coordinates) # 2
    \/ arg.type \in {"Rectangle", "Circle"} /\ Len(arg.coordinates) # 4
    \/ arg.type = "Polygon" /\ Len(arg.coordinates) < 6
    \/ arg.label \in {"", NoneStr}

\* C9: add with such arguments returns failure and leaves the active
\* sequence, the undo stack and the redo stack unchanged.
C9_InvalidAddRejected ==
    [][(lastOp' = "add" /\ InvalidArg(lastArg'))
           => /\ ~lastRet'
              /\ UNCHANGED <<current_annotations, undo_stack, redo_stack>>]_vars

\* A rejected add in a state where the sequence and both stacks hold something.
C9_Witness ==
    /\ lastOp = "add" /\ InvalidArg(lastArg) /\ ~lastRet
    /\ current_annotations # <<>>
    /\ undo_stack # <<>>
    /\ redo_stack # <<>>

\* C10: add of a Polygon succeeds only with an even coordinate count >= 6, so
\* the store never holds a Polygon with an odd number of coordinates.
C10_PolygonEvenOnly ==
    /\ (lastOp = "add" /\ lastArg.type = "Polygon" /\ lastRet)
           => (Len(lastArg.coordinates) >= 6 /\ Len(lastArg.coordinates) % 2 = 0)
    /\ \A i \in 1..Len(current_annotations) :
           current_annotations[i].type = "Polygon"
               => Len(current_annotations[i].coordinates) % 2 = 0

----------------------------------------------------------------------------
\* Properties of the index-based operations and of the empty stacks

\* The indices the store is asked about: two below 0 and two past the end.
Indices == -2..(MaxAnns + 2)

InRange(index) == 0 <= index /\ index < Len(current_annotations)

\* C11: delete, update and get with an index outside [0, length) (negative
\* ones included) return the sentinel and leave the active sequence and both
\* stacks unchanged; with an index in range, delete removes exactly the
\* annotation at that index, returns it, and keeps the others in order.
C11_IndexBounds ==
    \A index \in Indices :
        LET d == delete_annotation(State, index)
            u == update_annotation(State, index, [label |-> "dog"])
            rest == d.am.current_annotations
        IN IF InRange(index)
           THEN /\ d.ret
                /\ d.deleted = Some(current_annotations[index + 1])
                /\ Len(rest) = Len(current_annotations) - 1
                /\ \A k \in 1..Len(rest) :
                       rest[k] = current_annotations[IF k <= index THEN k ELSE k + 1]
                /\ HasAnnotation(State, Some(index))
           ELSE /\ d = [am |-> State, ret |-> FALSE, deleted |-> None]
                /\ u = [am |-> State, ret |-> FALSE]
                /\ ~HasAnnotation(State, Some(index))

\* A delete or an update that was refused (its index was -1 or past the end)
\* while the sequence and the undo stack held something, and left them alone.
C11_Witness ==
    /\ lastOp \in {"delete", "update"} /\ ~lastRet
    /\ Len(current_annotations) = MaxAnns
    /\ current_annotations[1] # current_annotations[2]
    /\ current_annotations = preAnns
    /\ Len(undo_stack) = preUndoLen /\ undo_stack # <<>>

\* C12: undo with an empty undo stack, and redo with an empty redo stack,
\* return failure and leave the active sequence and both stacks unchanged.
C12_EmptyStackNoOp ==
    /\ undo_stack = <<>> => undo(State) = [am |-> State, ret |-> FALSE]
    /\ redo_stack = <<>> => redo(State) = [am |-> State, ret |-> FALSE]
    /\ (lastOp = "undo" /\ preUndoLen = 0)
           => /\ ~lastRet /\ current_annotations = preAnns
              /\ undo_stack = <<>> /\ Len(redo_stack) = preRedoLen
    /\ (lastOp = "redo" /\ preRedoLen = 0)
           => /\ ~lastRet /\ current_annotations = preAnns
              /\ redo_stack = <<>> /\ Len(undo_stack) = preUndoLen

\* An undo that failed on an empty undo stack while the active sequence held
\* an annotation.
C12_Witness ==
    /\ lastOp = "undo" /\ preUndoLen = 0 /\ ~lastRet
    /\ current_annotations # <<>>
    /\ current_annotations = preAnns

----------------------------------------------------------------------------
\* Properties of the shapes (under SpecEdit)

\* C14: every Rectangle and Circle of the active sequence has x1 <= x2 and
\* y1 <= y2, in every state reached through drag creation, vertex drags (a
\* corner dragged past the opposite one included), edge moves, undo and redo.
C14_BoxOrdered ==
    \A i \in 1..Len(current_annotations) :
        LET a == current_annotations[i]
        IN (a.type \in {"Rectangle", "Circle"} /\ Len(a.coordinates) >= 4)
               => /\ a.coordinates[1] <= a.coordinates[3]
                  /\ a.coordinates[2] <= a.coordinates[4]

\* A drag frame that took the right-hand corner of a Rectangle or Circle to
\* the left of the opposite one: the old x1 is now x2.
C14_Witness ==
    /\ lastOp = "drag" /\ lastRet
    /\ selected_vertex # None
    /\ HasAnnotation(State, selected_annotation_index)
    /\ LET a == get_annotation(State, selected_annotation_index)
       IN /\ a.type \in {"Rectangle", "Circle"}
          /\ Len(original_coordinates) = 4
          /\ a.coordinates[3] = original_coordinates[1]
          /\ a.coordinates[1] < original_coordinates[1]

\* C15: in every state reached through draw gestures, edit-mode presses,
\* drags and releases, delete, undo and redo, every annotation of the active
\* sequence has a kind among the four and the coordinate count of its kind:
\* 2 for a Point, 4 for a Rectangle or a Circle, an even count >= 6 for a
\* Polygon.
C15_KindAndCount ==
    \A i \in 1..Len(current_annotations) :
        LET a == current_annotations[i]
            n == Len(a.coordinates)
        IN /\ a.type \in {"Point", "Rectangle", "Circle", "Polygon"}
           /\ a.type = "Point" => n = 2
           /\ a.type \in {"Rectangle", "Circle"} => n = 4
           /\ a.type = "Polygon" => (n >= 6 /\ n % 2 = 0)

\* The vertices and the edges of an annotation (a Point has one vertex and no
\* edge), and whether the position (x, y) is within the thresholds of one.
ShapeVertices(a) ==
    IF a.type = "Point" THEN << <<a.coordinates[1], a.coordinates[2]>> >>
    ELSE Vertices(a)

WithinVertex(a, v, x, y) ==
    BelowThreshold(calculate_distance(v[1], v[2], x, y), VERTEX_THRESHOLD, zoom_factor)

NearSomeVertex(a, x, y) ==
    \E i \in 1..Len(ShapeVertices(a)) : WithinVertex(a, ShapeVertices(a)[i], x, y)

NearSomeEdge(a, x, y) ==
    \E i \in 1..Len(Edges(a)) :
        LET e == Edges(a)[i]
        IN BelowThreshold(point_to_line_distance(x, y, e[1], e[2], e[3], e[4]),
                          EDGE_THRESHOLD, zoom_factor)

\* C20: a press in edit mode on the selected annotation engages a vertex, and
\* no edge, if some vertex is within the vertex threshold (even when an edge
\* is within the edge threshold too); otherwise an edge, and no vertex, if
\* some edge is within the edge threshold; otherwise it exits edit mode and
\* clears the selection and the engaged state.  Where it engages, it
\* snapshots the coordinates and leaves the annotation as it was.
C20_PressPriority ==
    (/\ ~button1 /\ original_image # NoneStr /\ edit_mode
     /\ HasAnnotation(State, selected_annotation_index))
        => \A c \in EditPoints :
               LET p == canvas_to_image_coords(State, c[1], c[2])
                   x == p[1]
                   y == p[2]
                   a == get_annotation(State, selected_annotation_index)
                   r == on_canvas_click(State, x, y).app
                   engaged ==
                       /\ r.edit_mode
                       /\ r.selected_annotation_index = selected_annotation_index
                       /\ r.original_coordinates = a.coordinates
                       /\ r.drag_start_x = Some(x) /\ r.drag_start_y = Some(y)
                       /\ r.current_annotations = current_annotations
                       /\ r.undo_stack = undo_stack /\ r.redo_stack = redo_stack
               IN IF NearSomeVertex(a, x, y)
                  THEN /\ engaged
                       /\ r.selected_edge = None
                       /\ r.selected_vertex # None
                       /\ Val(r.selected_vertex) + 1 \in 1..Len(ShapeVertices(a))
                       /\ WithinVertex(a, ShapeVertices(a)[Val(r.selected_vertex) + 1], x, y)
                  ELSE IF NearSomeEdge(a, x, y)
                  THEN /\ engaged
                       /\ r.selected_vertex = None
                       /\ r.selected_edge # None
                  ELSE /\ ~r.edit_mode
                       /\ r.selected_annotation_index = None
                       /\ r.selected_vertex = None /\ r.selected_edge = None
                       /\ r.original_coordinates = None
                       /\ r.drag_start_x = None /\ r.drag_start_y = None
                       /\ r.current_annotations = current_annotations

\* A press that engaged a vertex at a position that is within the edge
\* threshold of an edge too.
C20_Witness ==
    /\ lastOp = "press" /\ lastRet
    /\ selected_vertex # None /\ selected_edge = None
    /\ HasAnnotation(State, selected_annotation_index)
    /\ LET a == get_annotation(State, selected_annotation_index)
       IN /\ original_coordinates = a.coordinates
          /\ NearSomeEdge(a, Val(drag_start_x), Val(drag_start_y))

----------------------------------------------------------------------------
\* Properties of drafts (under SpecPoly)

\* A draft is in progress: the anchor of a rectangle or circle drag is set, or
\* polygon points are accumulated.
DraftInProgress == drag_start_pos # None \/ polygon_points # <<>>

\* C16: drafting and editing are mutually exclusive: in no reachable state is
\* edit mode active while a draft is in progress (a request to enter edit
\* mode during a draft is refused).
C16_DraftOrEdit == ~(edit_mode /\ DraftInProgress)

\* C18: cancel_drawing and on_tool_change while a draft is in progress both
\* discard it (drawing flag off, drag anchor cleared, polygon points emptied)
\* and leave the active sequence, the per-image map and both stacks as they
\* were; the release that ends the cancelled drag creates no annotation.
C18_CancelDiscardsDraft ==
    [][/\ (lastOp' \in {"cancel", "tool"} /\ (DraftInProgress \/ is_drawing))
           => /\ ~is_drawing'
              /\ drag_start_pos' = None
              /\ polygon_points' = <<>>
              /\ UNCHANGED <<current_annotations, annotations, undo_stack, redo_stack>>
       /\ (lastOp' = "release" /\ lastOp \in {"cancel", "tool"} /\ ~edit_mode)
           => UNCHANGED <<current_annotations, undo_stack, redo_stack>>]_vars

\* coords is the point list flattened in click order: x1, y1, ..., xk, yk.
IsFlattened(coords, points) ==
    /\ Len(coords) = 2 * Len(points)
    /\ \A k \in 1..Len(points) :
           coords[2 * k - 1] = points[k][1] /\ coords[2 * k] = points[k][2]

\* The step appends exactly one Polygon made of the accumulated points, with
\* the selected label, and empties the point list.
AppendsThePolygon ==
    /\ Len(current_annotations') = Len(current_annotations) + 1
    /\ SubSeq(current_annotations', 1, Len(current_annotations)) = current_annotations
    /\ LET a == current_annotations'[Len(current_annotations')]
       IN /\ a.type = "Polygon"
          /\ IsFlattened(a.coordinates, polygon_points)
          /\ a.label = selected_label
    /\ polygon_points' = <<>>

\* C17, as stated: with the Polygon tool, a completion with fewer than 3
\* accumulated points creates no annotation; a completion with k >= 3 points
\* appends exactly one Polygon whose coordinates are the clicked points
\* flattened in click order, and empties the accumulated point list.
C17_CompletionAppendsOne ==
    [][lastOp' = "complete"
           => /\ Len(polygon_points) < 3
                  => UNCHANGED <<current_annotations, undo_stack, polygon_points>>
              /\ (current_tool = "Polygon" /\ Len(polygon_points) >= 3)
                  => AppendsThePolygon]_vars

\* C17, amended: the completion with k >= 3 points appends the Polygon when a
\* label is selected; with no label selected it appends nothing, and empties
\* the accumulated point list all the same.
C17_CompletionWithLabel ==
    [][lastOp' = "complete"
           => /\ Len(polygon_points) < 3
                  => UNCHANGED <<current_annotations, undo_stack, polygon_points>>
              /\ (current_tool = "Polygon" /\ Len(polygon_points) >= 3)
                  => IF selected_label \notin {NoneStr, ""}
                     THEN AppendsThePolygon
                     ELSE /\ UNCHANGED <<current_annotations, undo_stack>>
                          /\ polygon_points' = <<>>]_vars

\* A completion that appended a Polygon of three different points or more.
C17_Witness ==
    /\ lastOp = "complete" /\ lastRet
    /\ polygon_points = <<>>
    /\ Len(current_annotations) = Len(preAnns) + 1
    /\ LET a == current_annotations[Len(current_annotations)]
       IN /\ a.type = "Polygon"
          /\ Len(a.coordinates) >= 6
          /\ Cardinality({<<a.coordinates[2 * k - 1], a.coordinates[2 * k]>> :
                              k \in 1..(Len(a.coordinates) \div 2)}) >= 3

----------------------------------------------------------------------------
\* Properties of drawing (under SpecDraw)

LabelSelected == selected_label \notin {NoneStr, ""}

\* C19: with an image loaded, edit mode and pan mode off, the Point tool and
\* a label selected, a click appends exactly one Point whose coordinates are
\* the click position in image space (the display position divided by the
\* zoom) and whose label and colour are the selected ones; with no label
\* selected, no image loaded or the tool None, a click appends nothing and
\* pushes no history.
C19_PointClick ==
    ~button1 =>
        \A c \in DrawPoints :
            LET p == canvas_to_image_coords(State, c[1], c[2])
                r == on_canvas_click(State, p[1], p[2]).app
                n == Len(current_annotations)
            IN /\ (/\ original_image # NoneStr /\ ~edit_mode /\ ~pan_mode
                   /\ current_tool = "Point" /\ LabelSelected)
                      => /\ Len(r.current_annotations) = n + 1
                         /\ SubSeq(r.current_annotations, 1, n) = current_annotations
                         /\ LET a == r.current_annotations[n + 1]
                            IN /\ a.type = "Point"
                               /\ Len(a.coordinates) = 2
                               /\ a.coordinates[1] * zoom_factor = c[1] * ZOOM_FACTOR
                               /\ a.coordinates[2] * zoom_factor = c[2] * ZOOM_FACTOR
                               /\ a.label = selected_label
                               /\ a.color = annotation_color
               /\ (~LabelSelected \/ original_image = NoneStr \/ current_tool = "None")
                      => /\ r.current_annotations = current_annotations
                         /\ r.undo_stack = undo_stack

\* A click with the Point tool at a zoom other than 1.0 that appended a Point
\* away from the origin.
C19_Witness ==
    /\ lastOp = "press" /\ current_tool = "Point"
    /\ zoom_factor # ZOOM_FACTOR
    /\ Len(current_annotations) = Len(preAnns) + 1
    /\ LET a == current_annotations[Len(current_annotations)]
       IN a.type = "Point" /\ a.coordinates[1] # 0 /\ a.label = selected_label

\* The release of a Rectangle or Circle drag: the drag is far when its length
\* on the display (the zoom times its length in the image) is
\* min_drag_distance or more.
BoxDrag ==
    /\ button1 /\ is_drawing /\ drag_start_pos # None
    /\ current_tool \in {"Rectangle", "Circle"}
    /\ original_image # NoneStr /\ ~edit_mode /\ ~pan_mode
    /\ LabelSelected

FarDrag(x1, y1, x2, y2) ==
    ((x2 - x1) * (x2 - x1) + (y2 - y1) * (y2 - y1)) * zoom_factor * zoom_factor
        >= min_drag_distance * min_drag_distance * ZOOM_FACTOR * ZOOM_FACTOR

\* r appends to the active sequence exactly one annotation of the tool's
\* kind with the corners of the drag in normal form.
AppendsTheBox(r, x1, y1, x2, y2) ==
    LET n == Len(current_annotations)
    IN /\ Len(r.current_annotations) = n + 1
       /\ SubSeq(r.current_annotations, 1, n) = current_annotations
       /\ r.current_annotations[n + 1].type = current_tool
       /\ r.current_annotations[n + 1].coordinates =
              <<Min(x1, x2), Min(y1, y2), Max(x1, x2), Max(y1, y2)>>

\* C13, as stated: a Rectangle (or Circle) drag with a label selected, from
\* (x1, y1) to (x2, y2) in the image, appends nothing if its length on the
\* display is below min_drag_distance, and otherwise appends exactly one
\* annotation of the tool's kind with the coordinates
\* [min(x1,x2), min(y1,y2), max(x1,x2), max(y1,y2)].
C13_DragAppendsBox ==
    BoxDrag =>
        \A c \in DrawPoints :
            LET p == canvas_to_image_coords(State, c[1], c[2])
                r == on_canvas_release(State, p[1], p[2]).app
                x1 == drag_start_pos[1]
                y1 == drag_start_pos[2]
            IN IF FarDrag(x1, y1, p[1], p[2])
               THEN AppendsTheBox(r, x1, y1, p[1], p[2])
               ELSE r.current_annotations = current_annotations

\* C13, amended: the far drag appends the box when the box is at least 1
\* wide and 1 high in the image; a far drag whose box is thinner appends
\* nothing.
C13_DragAppendsWideBox ==
    BoxDrag =>
        \A c \in DrawPoints :
            LET p == canvas_to_image_coords(State, c[1], c[2])
                r == on_canvas_release(State, p[1], p[2]).app
                x1 == drag_start_pos[1]
                y1 == drag_start_pos[2]
                wide == /\ Max(x1, p[1]) - Min(x1, p[1]) >= 1
                        /\ Max(y1, p[2]) - Min(y1, p[2]) >= 1
            IN /\ IF FarDrag(x1, y1, p[1], p[2]) /\ wide
                  THEN AppendsTheBox(r, x1, y1, p[1], p[2])
                  ELSE r.current_annotations = current_annotations
               /\ ~r.is_drawing /\ r.drag_start_pos = None

\* A release at a zoom other than 1.0 that appended a Rectangle or Circle
\* with a corner at the origin.
C13_Witness ==
    /\ lastOp = "release" /\ current_tool \in {"Rectangle", "Circle"}
    /\ zoom_factor # ZOOM_FACTOR
    /\ Len(current_annotations) = Len(preAnns) + 1
    /\ LET a == current_annotations[Len(current_annotations)]
       IN /\ a.type = current_tool
          /\ a.coordinates[1] < a.coordinates[3]
          /\ a.coordinates[2] < a.coordinates[4]
          /\ a.coordinates[1] = 0

----------------------------------------------------------------------------
\* Properties of edit gestures (under SpecShape)

\* An edit gesture is under way: a press engaged a vertex or an edge of the
\* selected annotation and nothing but drag frames has followed.
InGesture ==
    /\ button1 /\ edit_mode
    /\ gesture.phase \in {"pressed", "dragged"}
    /\ HasAnnotation(State, selected_annotation_index)
    /\ Val(selected_annotation_index) = gesture.index

\* The pointer in image space when it is at the position c of the canvas
PointerAt(c) == canvas_to_image_coords(State, c[1], c[2])

\* The coordinates of the edited annotation after a drag frame at p
AfterFrame(app, p) ==
    on_canvas_drag(app, p[1], p[2]).app.current_annotations[gesture.index + 1].coordinates

\* coords is the snapshot with (dx, dy) added to every pair
IsMovedBy(coords, snapshot, dx, dy) ==
    /\ Len(coords) = Len(snapshot)
    /\ \A i \in 1..Len(coords) :
           coords[i] = snapshot[i] + (IF i % 2 = 1 THEN dx ELSE dy)

\* C21: during an edge drag, after any drag frames, a frame with the pointer
\* at p leaves every coordinate pair of the edited annotation equal to the
\* press-time pair plus (p - press point), whatever the frames before it
\* were; a frame at the press point gives the press-time coordinates back.
C21_EdgeDragFromSnapshot ==
    (InGesture /\ selected_edge # None) =>
        LET press == <<Val(drag_start_x), Val(drag_start_y)>>
            snapshot == gesture.coords
            a == get_annotation(State, selected_annotation_index)
        IN /\ \E c \in ShapePoints :
                  IsMovedBy(a.coordinates, snapshot, PointerAt(c)[1] - press[1],
                            PointerAt(c)[2] - press[2])
           /\ \A c \in ShapePoints :
                  LET p == PointerAt(c)
                  IN /\ IsMovedBy(AfterFrame(State, p), snapshot,
                                  p[1] - press[1], p[2] - press[2])
                     /\ p = press => AfterFrame(State, p) = snapshot
                     /\ \A d \in ShapePoints :
                            LET q == PointerAt(d)
                                between == on_canvas_drag(State, q[1], q[2]).app
                            IN AfterFrame(between, p) = AfterFrame(State, p)

\* A drag frame that brought a Polygon, moved by the frame before it, back to
\* its press-time coordinates: the pointer is at the press point again.
C21_Witness ==
    /\ lastOp = "drag" /\ lastRet
    /\ InGesture /\ selected_edge # None /\ gesture.phase = "dragged"
    /\ LET a == get_annotation(State, selected_annotation_index)
           before == undo_stack[Len(undo_stack)].annotations
       IN /\ a.type = "Polygon"
          /\ a.coordinates = gesture.coords
          /\ before[gesture.index + 1].coordinates # gesture.coords

\* The box whose engaged corner (vertex 0..3: top-left, top-right,
\* bottom-right, bottom-left) is taken to p while the components of the
\* opposite corner stay as in the snapshot, in min/max form
CornerTo(snapshot, vertex, p) ==
    LET ox == IF vertex \in {0, 3} THEN snapshot[3] ELSE snapshot[1]
        oy == IF vertex \in {0, 1} THEN snapshot[4] ELSE snapshot[2]
    IN <<Min(p[1], ox), Min(p[2], oy), Max(p[1], ox), Max(p[2], oy)>>

\* coords is the snapshot with the pair of the vertex replaced by p
VertexTo(coords, snapshot, vertex, p) ==
    /\ Len(coords) = Len(snapshot)
    /\ \A i \in 1..Len(coords) :
           coords[i] = IF i = 2 * vertex + 1 THEN p[1]
                       ELSE IF i = 2 * vertex + 2 THEN p[2]
                       ELSE snapshot[i]

\* C22: during a vertex drag, a frame with the pointer at p changes, in a
\* Polygon, only the pair of the engaged vertex (to p), every other pair
\* being the press-time one; in a Rectangle or Circle it replaces the two
\* components of the engaged corner by p, keeps the two of the opposite
\* corner at their press-time values and re-orders the four into min/max
\* form; no other annotation changes, nor the kind, the label or the colour
\* of the edited one.
C22_VertexDragFrame ==
    (InGesture /\ selected_vertex # None) =>
        \A c \in ShapePoints :
            LET p == PointerAt(c)
                k == gesture.index + 1
                a == current_annotations[k]
                after == on_canvas_drag(State, p[1], p[2]).app.current_annotations
                vertex == Val(selected_vertex)
            IN /\ Len(after) = Len(current_annotations)
               /\ \A j \in 1..Len(after) : j # k => after[j] = current_annotations[j]
               /\ after[k].type = a.type
               /\ after[k].label = a.label
               /\ after[k].color = a.color
               /\ a.type = "Polygon"
                      => VertexTo(after[k].coordinates, gesture.coords, vertex, p)
               /\ a.type \in {"Rectangle", "Circle"}
                      => after[k].coordinates = CornerTo(gesture.coords, vertex, p)
               /\ a.type = "Point" => after[k].coordinates = p

\* A drag frame that took a corner of a Rectangle back from beyond the
\* opposite corner, where the frame before it had left it, with another
\* annotation beside it in the sequence.
C22_Witness ==
    /\ lastOp = "drag" /\ lastRet
    /\ InGesture /\ selected_vertex # None /\ gesture.phase = "dragged"
    /\ Len(current_annotations) = 2
    /\ LET a == get_annotation(State, selected_annotation_index)
           before == undo_stack[Len(undo_stack)].annotations[gesture.index + 1]
       IN /\ a.type = "Rectangle"
          /\ before.coordinates[1] = gesture.coords[3]
          /\ before.coordinates[3] > gesture.coords[3]
          /\ a.coordinates[3] = gesture.coords[3]
          /\ a.coordinates # gesture.coords

----------------------------------------------------------------------------
\* Properties of the hit tests (under SpecShape)

\* The zooms of the model: 0.5, 1.0 and 2.0
Zooms == ZoomLevels \cup {ZOOM_FACTOR}

\* The point of the image that the display shows at the offset o, in display
\* pixels, from the point v of the image
AtOffset(v, o, zoom) ==
    <<v[1] + (o[1] * ZOOM_FACTOR) \div zoom, v[2] + (o[2] * ZOOM_FACTOR) \div zoom>>

\* C23: find_nearest_vertex returns the index i only if vertex i is a nearest
\* vertex of the annotation to the query point, the earliest of the nearest
\* ones (top-left, top-right, bottom-right, bottom-left for a Rectangle or a
\* Circle, sequence order for a Polygon), and its distance is strictly below
\* VERTEX_THRESHOLD / zoom; it returns none exactly when no vertex is strictly
\* within the threshold; a pointer at a fixed distance in display pixels from
\* a vertex hits or misses alike at every zoom.
C23_NearestVertex ==
    \A k \in 1..Len(current_annotations) :
        LET a == current_annotations[k]
            vs == ShapeVertices(a)
            dist(i, q) == calculate_distance(vs[i][1], vs[i][2], q[1], q[2])
        IN /\ \A q \in QueryPoints :
                  LET found == find_nearest_vertex(q[1], q[2], a, zoom_factor)
                      within(i) == BelowThreshold(dist(i, q), VERTEX_THRESHOLD, zoom_factor)
                  IN /\ found = None <=> \A i \in 1..Len(vs) : ~within(i)
                     /\ found # None
                            => LET i == Val(found) + 1
                               IN /\ i \in 1..Len(vs)
                                  /\ within(i)
                                  /\ \A j \in 1..Len(vs) : ~DistLess(dist(j, q), dist(i, q))
                                  /\ \A j \in 1..(i - 1) : DistLess(dist(i, q), dist(j, q))
           /\ \A i \in 1..Len(vs), o \in DisplayOffsets, zoom \in Zooms :
                  LET q == AtOffset(vs[i], o, zoom)
                      alone == [type |-> "Point", coordinates |-> vs[i]]
                      near == o[1] * o[1] + o[2] * o[2] < VERTEX_THRESHOLD * VERTEX_THRESHOLD
                  IN /\ find_nearest_vertex(q[1], q[2], alone, zoom)
                            = IF near THEN Some(0) ELSE None
                     /\ near => find_nearest_vertex(q[1], q[2], a, zoom) # None

\* A press at the zoom 0.5 that engaged the second corner of a Rectangle, the
\* nearest one, at a position within the vertex threshold of the first
\* corner too.
C23_Witness ==
    /\ lastOp = "press" /\ lastRet
    /\ zoom_factor = 5
    /\ selected_vertex = Some(1)
    /\ HasAnnotation(State, selected_annotation_index)
    /\ LET a == get_annotation(State, selected_annotation_index)
       IN /\ a.type = "Rectangle"
          /\ WithinVertex(a, Vertices(a)[1], Val(drag_start_x), Val(drag_start_y))
          /\ WithinVertex(a, Vertices(a)[2], Val(drag_start_x), Val(drag_start_y))

\* The distance from the point q to edge i of an annotation whose vertices
\* are vs: edge i runs from vertex i to the next one, the last edge from the
\* last vertex back to the first.
EdgeDistance(vs, i, q) ==
    LET from == vs[i]
        to == vs[(i % Len(vs)) + 1]
    IN point_to_line_distance(q[1], q[2], from[1], from[2], to[1], to[2])

\* C24: is_near_edge returns the lowest-index edge whose distance from the
\* point is below EDGE_THRESHOLD / zoom (top, right, bottom, left for a
\* Rectangle or a Circle; each consecutive pair of vertices and then the
\* closing edge, index n - 1, for a Polygon of n vertices), even when an edge
\* after it is nearer, and none when no edge is within the threshold.  The
\* Rectangle [0, 0, 10, 10] with the threshold 2 (the zoom 2.5) and a point
\* just below the middle of its top side gives edge 0.
C24_FirstEdge ==
    /\ \A k \in 1..Len(current_annotations), q \in QueryPoints :
           LET a == current_annotations[k]
               vs == Vertices(a)
               n == IF a.type = "Point" THEN 0 ELSE Len(vs)
               within(i) == BelowThreshold(EdgeDistance(vs, i, q), EDGE_THRESHOLD,
                                           zoom_factor)
               found == is_near_edge(q[1], q[2], a, zoom_factor)
           IN /\ found = None <=> \A i \in 1..n : ~within(i)
              /\ found # None
                     => LET i == Val(found) + 1
                        IN /\ i \in 1..n
                           /\ within(i)
                           /\ \A j \in 1..(i - 1) : ~within(j)
    /\ is_near_edge(5, 1, [type |-> "Rectangle", coordinates |-> <<0, 0, 10, 10>>], 25)
           = Some(0)

\* A press that engaged the first edge of a Polygon at a position that is
\* nearer to its closing edge.
C24_Witness ==
    /\ lastOp = "press" /\ lastRet
    /\ selected_edge = Some(0) /\ selected_vertex = None
    /\ HasAnnotation(State, selected_annotation_index)
    /\ LET a == get_annotation(State, selected_annotation_index)
           q == <<Val(drag_start_x), Val(drag_start_y)>>
       IN /\ a.type = "Polygon"
          /\ Len(Vertices(a)) = 3
          /\ DistLess(EdgeDistance(Vertices(a), 3, q), EdgeDistance(Vertices(a), 1, q))

----------------------------------------------------------------------------
\* Properties of the labels (under SpecLabel)

\* C25: a confirmed deletion of the label L sets the label to null on exactly
\* those annotations of the active sequence that referenced L and leaves
\* their colour and coordinates as they were, removes no annotation and does
\* not reorder the sequence, leaves every annotation that did not reference L
\* untouched, and removes L and its colour from the label set.
C25_DeleteLabelFrame ==
    \A index \in 0..(Len(labels) - 1) :
        LET L == labels[index + 1]
            r == delete_label(State, index)
            after == r.current_annotations
        IN /\ Len(after) = Len(current_annotations)
           /\ \A k \in 1..Len(after) :
                  LET a == current_annotations[k]
                  IN IF a.label = L
                     THEN /\ after[k].label = NoneStr
                          /\ after[k].type = a.type
                          /\ after[k].color = a.color
                          /\ after[k].coordinates = a.coordinates
                     ELSE after[k] = a
           /\ ~InList(L, r.labels)
           /\ Len(r.labels) = Len(labels) - 1
           /\ \A i \in 1..Len(r.labels) :
                  r.labels[i] = labels[IF i <= index THEN i ELSE i + 1]
           /\ DOMAIN r.label_colors = (DOMAIN label_colors) \ {L}
           /\ \A l \in DOMAIN r.label_colors : r.label_colors[l] = label_colors[l]

\* A deletion of a label that one annotation of the active sequence carried
\* and another did not: the first is still there, without label and with its
\* colour, and the second still has its label.
C25_Witness ==
    /\ lastOp = "delete_label"
    /\ Len(current_annotations) = 2 /\ Len(preAnns) = 2
    /\ \E k, j \in 1..2 :
           /\ preAnns[k].label # NoneStr
           /\ current_annotations[k].label = NoneStr
           /\ current_annotations[k].color = preAnns[k].color
           /\ current_annotations[j].label # NoneStr
           /\ current_annotations[j] = preAnns[j]
           /\ current_annotations[j].color # current_annotations[k].color

\* C26: after any sequence of add_label, edit_label and delete_label the
\* label list holds no name twice and the keys of the label-colour map are
\* the names of the list; adding a name that exists, or renaming a label to
\* the name of another one, is rejected and leaves the label set as it was.
C26_LabelSetConsistent ==
    /\ \A i, j \in 1..Len(labels) : labels[i] = labels[j] => i = j
    /\ DOMAIN label_colors = {labels[i] : i \in 1..Len(labels)}
    /\ \A label \in LabelTexts, color \in LabelColors :
           /\ InList(Strip(label), labels)
                  => LET r == add_label(State, label, color)
                     IN r.labels = labels /\ r.label_colors = label_colors
           /\ \A index \in 0..(Len(labels) - 1) :
                  (InList(Strip(label), labels) /\ Strip(label) # labels[index + 1])
                      => LET r == edit_label(State, index, label, color)
                         IN r.labels = labels /\ r.label_colors = label_colors

\* An add_label that was refused because the name entered, once stripped, is
\* the name of one of the two labels of the set.
C26_Witness ==
    /\ lastOp = "add_label" /\ ~lastRet
    /\ lastArg.label = " cat "
    /\ Len(labels) = 2
    /\ InList("cat", labels)
    /\ label_colors["cat"] # label_colors["dog"]

----------------------------------------------------------------------------
\* Properties of COCO files (under SpecCoco)

\* C27: importing a COCO document that lacks one of the top-level keys
\* images, annotations or categories fails, and leaves the label set, the
\* label colours, the per-image annotation map, the active sequence and the
\* history stacks exactly as they were before the import.
C27_MissingKeyNoEffect ==
    \A coco_data \in CocoDocuments(State), color \in RandomColors :
        ~(RequiredKeys \subseteq DOMAIN coco_data) =>
            LET imported == import_coco(State, coco_data, color)
            IN /\ ~imported.ret
               /\ imported.app.labels = labels
               /\ imported.app.label_colors = label_colors
               /\ imported.app.annotations = annotations
               /\ imported.app.current_annotations = current_annotations
               /\ imported.app.undo_stack = undo_stack
               /\ imported.app.redo_stack = redo_stack

\* An import has just failed (with a folder open, the import of a document
\* that lacks a key is the only one that fails) in a workspace that has
\* labels, a history, and an active sequence the annotation map has not
\* recorded yet.
C27_Witness ==
    /\ lastOp = "import"
    /\ ~lastRet
    /\ images # <<>>
    /\ labels # <<>>
    /\ undo_stack # <<>>
    /\ current_annotations # <<>>
    /\ \/ current_image_path \notin DOMAIN annotations
       \/ annotations[current_image_path] # current_annotations

\* C28: for every Rectangle and every Polygon annotation whose label is in
\* the label set, exporting to COCO and importing the exported document
\* yields, for the same image, an annotation of the same kind with the same
\* coordinates and label.
C28_CocoRoundTrip ==
    images # <<>> =>
        \A color \in RandomColors :
            LET exported == export_coco(State, {images[i] : i \in 1..Len(images)})
                before == exported.app.annotations
                after == import_coco(exported.app, exported.doc, color).app.annotations
            IN \A image_path \in DOMAIN before :
                   \A i \in 1..Len(before[image_path]) :
                       LET ann == before[image_path][i]
                       IN (ann.type \in {"Rectangle", "Polygon"} /\ InList(ann.label, labels)) =>
                              /\ image_path \in DOMAIN after
                              /\ \E j \in 1..Len(after[image_path]) :
                                     /\ after[image_path][j].type = ann.type
                                     /\ after[image_path][j].coordinates = ann.coordinates
                                     /\ after[image_path][j].label = ann.label

\* C29: an import that goes through has either converted or counted as
\* skipped every annotation of a matched image: processed count + skipped
\* count = number of annotations of matched images.
C29_EveryAnnotationCounted ==
    images # <<>> =>
        \A coco_data \in CocoDocuments(State), color \in RandomColors :
            RequiredKeys \subseteq DOMAIN coco_data =>
                LET imported == import_coco(State, coco_data, color)
                    of_matched ==
                        {i \in 1..Len(coco_data.annotations) :
                            \E j \in 1..Len(coco_data.images) :
                                /\ coco_data.images[j].id = coco_data.annotations[i].image_id
                                /\ InList(LastWith(coco_data.images,
                                                   coco_data.images[j].id).file_name, images)}
                IN /\ imported.ret
                   /\ imported.processed + imported.skipped = Cardinality(of_matched)

----------------------------------------------------------------------------
\* Properties of zooming (under SpecZoom)

\* The results of the zoom operations in this state
ZoomResults ==
    {zoom_in(State), zoom_out(State), reset_zoom(State)}
        \cup {fit_to_window(State, fit) : fit \in ZoomFits}
        \cup {on_mouse_wheel(State, event) : event \in WheelEvents}

\* C30: in every state reachable by zoom_in, zoom_out, reset_zoom,
\* fit_to_window and mouse-wheel events, MIN_ZOOM <= zoom_factor <= MAX_ZOOM;
\* zoom_in at the maximum and zoom_out at the minimum leave the zoom factor
\* unchanged, and no zoom operation changes the coordinates of an annotation.
C30_ZoomBounded ==
    /\ MIN_ZOOM <= zoom_factor /\ zoom_factor <= MAX_ZOOM
    /\ zoom_factor = MAX_ZOOM => zoom_in(State).zoom_factor = zoom_factor
    /\ zoom_factor = MIN_ZOOM => zoom_out(State).zoom_factor = zoom_factor
    /\ \A zoomed \in ZoomResults :
           /\ MIN_ZOOM <= zoomed.zoom_factor /\ zoomed.zoom_factor <= MAX_ZOOM
           /\ zoomed.current_annotations = current_annotations
           /\ zoomed.annotations = annotations

\* zoom_in has just been used at the maximum and has left the zoom as it
\* was, with an annotation on the image.
C30_Witness ==
    /\ lastOp = "zoom_in"
    /\ ~lastRet
    /\ zoom_factor = MAX_ZOOM
    /\ current_annotations # <<>>

----------------------------------------------------------------------------
\* Properties of the polygon area (under SpecArea)

\* The vertex list of coords rotated by k vertices, and reversed
RotatedBy(coords, k) ==
    [i \in 1..Len(coords) |-> coords[((i - 1 + 2 * k) % Len(coords)) + 1]]
Reversed(coords) ==
    [i \in 1..Len(coords) |->
        coords[Len(coords) - 2 * ((i - 1) \div 2) - (i % 2)]]

\* C31: calculate_polygon_area is non-negative and returns the same value for
\* a vertex list, for every cyclic rotation of it and for its reversal; it
\* returns 0 for fewer than 3 vertices and 100 for the square
\* [0,0,10,0,10,10,0,10].
C31_AreaSymmetric ==
    /\ \A i \in 1..Len(current_annotations) :
           LET coords == current_annotations[i].coordinates
               area == get_annotation_details(current_annotations[i]).area
           IN current_annotations[i].type = "Polygon" =>
                  /\ area.num >= 0 /\ area.den > 0
                  /\ \A k \in 0..(Len(coords) \div 2) :
                         calculate_polygon_area(RotatedBy(coords, k)) = area
                  /\ calculate_polygon_area(Reversed(coords)) = area
    /\ \A n \in 0..2 : \A points \in VertexLists(n) :
           calculate_polygon_area(Flatten(points)).num = 0
    /\ LET square == calculate_polygon_area(<<0, 0, 10, 0, 10, 10, 0, 10>>)
       IN square.num = 100 * square.den

\* The details of a polygon of four vertices have just been shown; its area
\* is not 0, and its reversal is another list.
C31_Witness ==
    /\ lastOp = "details"
    /\ lastRet
    /\ Len(current_annotations) = 1
    /\ Len(current_annotations[1].coordinates) = 8
    /\ get_annotation_details(current_annotations[1]).area.num > 0
    /\ Reversed(current_annotations[1].coordinates) # current_annotations[1].coordinates
    /\ RotatedBy(current_annotations[1].coordinates, 1) # current_annotations[1].coordinates

----------------------------------------------------------------------------
\* Properties of drafts (under SpecSketch)

\* A Rectangle or Circle draft is in progress
BoxDraft ==
    /\ is_drawing /\ drag_start_pos # None /\ ~edit_mode
    /\ current_tool \in {"Rectangle", "Circle"}

\* C32: while a Rectangle or Circle draft is in progress, a drag frame leaves
\* the active sequence and both history stacks unchanged; the press that
\* starts a draft appends nothing, and the release appends at most one
\* annotation.
C32_DragNeverCommits ==
    /\ BoxDraft =>
           \A c \in DrawPoints :
               LET p == canvas_to_image_coords(State, c[1], c[2])
                   dragged == on_canvas_drag(State, p[1], p[2]).app
                   released == on_canvas_release(State, p[1], p[2]).app
               IN /\ dragged.current_annotations = current_annotations
                  /\ dragged.undo_stack = undo_stack
                  /\ dragged.redo_stack = redo_stack
                  /\ dragged.is_drawing /\ dragged.drag_start_pos = drag_start_pos
                  /\ Len(released.current_annotations) <= Len(current_annotations) + 1
                  /\ ~released.is_drawing
    /\ (~edit_mode /\ current_tool \in {"Rectangle", "Circle"}) =>
           \A c \in DrawPoints :
               LET p == canvas_to_image_coords(State, c[1], c[2])
                   pressed == on_canvas_click(State, p[1], p[2]).app
               IN /\ pressed.current_annotations = current_annotations
                  /\ pressed.undo_stack = undo_stack
    /\ (lastOp = "drag" /\ ~edit_mode) =>
           /\ current_annotations = preAnns
           /\ Len(undo_stack) = preUndoLen
           /\ Len(redo_stack) = preRedoLen

\* A drag frame has just been delivered to a draft that a release at some
\* position would commit, in a session with an annotation and a history.
C32_Witness ==
    /\ lastOp = "drag"
    /\ BoxDraft /\ button1 /\ LabelSelected /\ original_image # NoneStr
    /\ current_annotations # <<>>
    /\ undo_stack # <<>>
    /\ \E c \in DrawPoints :
           LET p == canvas_to_image_coords(State, c[1], c[2])
           IN Len(on_canvas_release(State, p[1], p[2]).app.current_annotations)
                  = Len(current_annotations) + 1

----------------------------------------------------------------------------
\* Properties of edit-mode misses (under SpecEdit)

\* The store is the same in app as in this state: the active sequence and
\* both history stacks
SameStore(app) ==
    /\ app.current_annotations = current_annotations
    /\ app.undo_stack = undo_stack
    /\ app.redo_stack = redo_stack

\* C33: in edit mode, a press that misses every vertex and edge, a drag frame
\* with no engaged vertex or edge and a release with no engaged vertex or
\* edge each leave the active sequence and both history stacks unchanged.
C33_MissesAreNoOps ==
    edit_mode =>
        \A c \in EditPoints :
            LET p == canvas_to_image_coords(State, c[1], c[2])
                pressed == on_canvas_click(State, p[1], p[2])
                dragged == on_canvas_drag(State, p[1], p[2])
                released == on_canvas_release(State, p[1], p[2])
            IN /\ pressed.ret \notin {"vertex", "edge"} => SameStore(pressed.app)
               /\ (selected_vertex = None /\ selected_edge = None) =>
                      /\ SameStore(dragged.app) /\ ~dragged.ret
                      /\ SameStore(released.app) /\ ~released.ret

\* In edit mode, with an annotation, a snapshot to undo and one to redo, a
\* release has just come with no vertex and no edge engaged, and has left
\* both stacks as high as they were.
C33_Witness ==
    /\ lastOp = "release" /\ ~lastRet
    /\ edit_mode
    /\ selected_vertex = None /\ selected_edge = None
    /\ current_annotations # <<>>
    /\ undo_stack # <<>>
    /\ redo_stack # <<>>
    /\ Len(undo_stack) = preUndoLen /\ Len(redo_stack) = preRedoLen

----------------------------------------------------------------------------
\* Properties of labels across the store (under SpecLabel)

\* Every annotation of the sequence has no label or a label of the label set
Labelled(anns) ==
    \A i \in 1..Len(anns) :
        anns[i].label = NoneStr \/ InList(anns[i].label, labels)

\* C34: every annotation of the active sequence, of every sequence recorded
\* for a non-active image and of every snapshot that undo or redo can reach
\* has a label that is null or in the current label set.
C34_NoDanglingLabel ==
    /\ Labelled(current_annotations)
    /\ \A image_path \in (DOMAIN annotations) \ {current_image_path} :
           Labelled(annotations[image_path])
    /\ \A i \in 1..Len(undo_stack) : Labelled(undo_stack[i].annotations)
    /\ \A i \in 1..Len(redo_stack) : Labelled(redo_stack[i].annotations)

----------------------------------------------------------------------------
\* Properties of the edit selection (under SpecEdit)

\* C35: whenever edit mode is active, selected_annotation_index is a valid
\* index of the active sequence (0 <= index < length), under any interleaving
\* of the edit-mode events with delete_annotation, undo and redo.
C35_EditIndexValid ==
    edit_mode =>
        /\ selected_annotation_index # None
        /\ 0 <= Val(selected_annotation_index)
        /\ Val(selected_annotation_index) < Len(current_annotations)

----------------------------------------------------------------------------
\* Properties of the workspace reset (under SpecReset)

\* C36: after a confirmed workspace reset the active sequence, the per-image
\* annotation map and the label set are empty, both history stacks are empty
\* and edit mode is off.
C36_ResetClearsAll ==
    /\ LET reset == reset_workspace(State)
       IN /\ reset.current_annotations = <<>>
          /\ reset.annotations = <<>>
          /\ reset.labels = <<>>
          /\ reset.undo_stack = <<>>
          /\ reset.redo_stack = <<>>
          /\ ~reset.edit_mode
    /\ lastOp = "load_folder" =>
          /\ current_annotations = <<>>
          /\ annotations = <<>>
          /\ labels = <<>>
          /\ undo_stack = <<>>
          /\ redo_stack = <<>>
          /\ ~edit_mode

----------------------------------------------------------------------------
\* Properties of the image switches (under SpecSwitch)

IndexOfImage(path) == (CHOOSE k \in 1..Len(images) : images[k] = path) - 1

\* C37: for every image path p, the sequence recorded under p holds only
\* annotations made while p was the active image, whatever selections
\* (with the image opening or not) and saves were made.
C37_RecordedUnderOwnImage ==
    \A path \in DOMAIN annotations :
        \A k \in 1..Len(annotations[path]) :
            annotations[path][k].coordinates
                = PointOn(IndexOfImage(path)).coordinates

----------------------------------------------------------------------------
\* Properties of the size of drawn boxes (under SpecSketch)

IsBox(annotation) == annotation.type \in {"Rectangle", "Circle"}

\* The box from (x1, y1) to (x2, y2), in normal form, is less than 1 wide or
\* less than 1 high.
ThinBox(x1, y1, x2, y2) ==
    \/ Max(x1, x2) - Min(x1, x2) < 1
    \/ Max(y1, y2) - Min(y1, y2) < 1

WideBoxes(anns) ==
    \A k \in 1..Len(anns) :
        IsBox(anns[k]) =>
            /\ anns[k].coordinates[3] - anns[k].coordinates[1] >= 1
            /\ anns[k].coordinates[4] - anns[k].coordinates[2] >= 1

\* C38: every Rectangle or Circle appended by a drag gesture is at least 1
\* wide and at least 1 high in the image; the release of a drag whose box
\* in normal form is thinner than 1 on either axis appends nothing, pushes no
\* history, and still ends the draft (drawing flag off, anchor cleared).
C38_NoThinBox ==
    /\ WideBoxes(current_annotations)
    /\ \A k \in 1..Len(undo_stack) : WideBoxes(undo_stack[k].annotations)
    /\ \A k \in 1..Len(redo_stack) : WideBoxes(redo_stack[k].annotations)
    /\ BoxDraft =>
          \A c \in DrawPoints :
              LET p == canvas_to_image_coords(State, c[1], c[2])
                  r == on_canvas_release(State, p[1], p[2]).app
              IN ThinBox(drag_start_pos[1], drag_start_pos[2], p[1], p[2]) =>
                     /\ r.current_annotations = current_annotations
                     /\ r.undo_stack = undo_stack
                     /\ r.redo_stack = redo_stack
                     /\ ~r.is_drawing
                     /\ r.drag_start_pos = None
    /\ (/\ lastOp = "release" /\ IsBox(lastArg)
        /\ ThinBox(lastArg.coordinates[1], lastArg.coordinates[2],
                   lastArg.coordinates[3], lastArg.coordinates[4]))
          => /\ current_annotations = preAnns
             /\ Len(undo_stack) = preUndoLen
             /\ Len(redo_stack) = preRedoLen
             /\ ~is_drawing
             /\ drag_start_pos = None

\* A level or upright drag, long enough on the display and with a label
\* selected, was released: only the size of its box kept it from being
\* appended, and the draft is over.
C38_Witness ==
    /\ lastOp = "release" /\ IsBox(lastArg) /\ lastArg.type = current_tool
    /\ LabelSelected
    /\ FarDrag(lastArg.coordinates[1], lastArg.coordinates[2],
               lastArg.coordinates[3], lastArg.coordinates[4])
    /\ ThinBox(lastArg.coordinates[1], lastArg.coordinates[2],
               lastArg.coordinates[3], lastArg.coordinates[4])
    /\ current_annotations = preAnns
    /\ current_annotations # <<>>
    /\ ~is_drawing /\ drag_start_pos = None

====
